---- MODULE Spec2Model ----
(***************************************************************************)
(* Bankroll performance analytics of the Python-Poker-Tracker:             *)
(* PokerAnalytics (analytics.py) and AlphaDecayAnalyzer (alpha_decay.py)   *)
(* over the session list kept by PokerTracker, the two variants of        *)
(* PokerTracker itself, and the SessionManager of the Poker_Trainer.        *)
(*                                                                         *)
(* Numbers.  Currency amounts of the model are whole dollars (Int).        *)
(* Python floats computed from them are fixed-point numbers in units of    *)
(* 1/SCALE, carried in records together with the IEEE special values:      *)
(*   [k |-> "fin", v |-> n]   the number n/SCALE                           *)
(*   [k |-> "nan", v |-> 0]   NaN                                          *)
(*   [k |-> "inf", v |-> s]   s * infinity, s \in {1, -1}                  *)
(* Division and multiplication truncate toward zero but never turn a       *)
(* non-zero quotient into zero, so signs and comparisons with 0 are those  *)
(* of the exact result, as they are for doubles of this magnitude.         *)
(***************************************************************************)
EXTENDS Integers, Sequences, FiniteSets, TLC

VARIABLES
    sessions,   \* the list of session records: PokerTracker.sessions, which
                \* is also what poker_sessions.json holds (load_sessions reads
                \* it, add_session saves it), handed to the analyzers
    analyzer,   \* the class of the object the calls are made on
    df,         \* self.df, the table derived by _create_dataframe
    out,        \* the last call made on the analyzer and what it returned
    rng_state,  \* numpy's global generator: the variates drawn so far
    training_sessions,  \* Poker_Trainer: the rows of the table
                        \* training_sessions, in the order of their insertion
    users       \* Poker_Trainer: the totals columns of the table users, by id

vars == <<sessions, analyzer, df, out, rng_state, training_sessions, users>>

SCALE == 10 * 10 * 10

-----------------------------------------------------------------------------
(* Integer helpers *)

Abs(x) == IF x < 0 THEN -x ELSE x

Sgn(x) == IF x < 0 THEN -1 ELSE IF x > 0 THEN 1 ELSE 0

RECURSIVE Gcd(_, _)
Gcd(a, b) == IF b = 0 THEN a ELSE Gcd(b, a % b)

\* <<q, r>> with a * b = q * c + r, 0 <= r < c, for naturals a, b and
\* 0 < c < 2^30, computed without forming the product a * b.
RECURSIVE MulDivQR(_, _, _)
MulDivQR(a, b, c) ==
    IF b = 0 THEN <<0, 0>>
    ELSE LET h  == MulDivQR(a, b \div 2, c)
             r2 == 2 * h[2]
             c2 == IF r2 >= c THEN 1 ELSE 0
             r3 == r2 - c2 * c
             qa == IF b % 2 = 1 THEN a \div c ELSE 0
             ra == IF b % 2 = 1 THEN a % c ELSE 0
             r4 == r3 + ra
             c4 == IF r4 >= c THEN 1 ELSE 0
         IN  <<2 * h[1] + c2 + qa + c4, r4 - c4 * c>>

\* floor(a * b / c) for naturals
MulDiv(a, b, c) ==
    IF b = 0 \/ a <= 2147483647 \div b THEN (a * b) \div c ELSE MulDivQR(a, b, c)[1]

\* a * b / c for integers, truncated toward zero, but never to zero when
\* the exact quotient is not zero
QMulDiv(a, b, c) ==
    LET s == Sgn(a) * Sgn(b) * Sgn(c)
        q == MulDiv(Abs(a), Abs(b), Abs(c))
    IN  IF s = 0 THEN 0 ELSE IF q = 0 THEN s ELSE s * q

RECURSIVE SqrtIter(_, _, _)
SqrtIter(n, lo, hi) ==
    IF lo = hi THEN lo
    ELSE LET mid == (lo + hi + 1) \div 2
         IN  IF mid * mid <= n THEN SqrtIter(n, mid, hi)
                               ELSE SqrtIter(n, lo, mid - 1)

\* floor(sqrt(n)) for 0 <= n < 2^31
ISqrt(n) == SqrtIter(n, 0, 46340)

-----------------------------------------------------------------------------
(* Python floats *)

Fin(n) == [k |-> "fin", v |-> n]

NaN == [k |-> "nan", v |-> 0]

Inf(s) == [k |-> "inf", v |-> s]

\* the float of a whole number
FInt(n) == Fin(n * SCALE)

\* the float of the decimal fraction n/d
Dec(n, d) == Fin((n * SCALE) \div d)

IsFin(a) == a.k = "fin"

IsNaN(a) == a.k = "nan"

FSign(a) == Sgn(a.v)

FNeg(a) == [k |-> a.k, v |-> -a.v]

FAbs(a) == [k |-> a.k, v |-> Abs(a.v)]

FAdd(a, b) ==
    IF IsNaN(a) \/ IsNaN(b) THEN NaN
    ELSE IF IsFin(a) /\ IsFin(b) THEN Fin(a.v + b.v)
    ELSE IF IsFin(a) THEN b
    ELSE IF IsFin(b) THEN a
    ELSE IF a.v = b.v THEN a ELSE NaN

FSub(a, b) == FAdd(a, FNeg(b))

FMul(a, b) ==
    IF IsNaN(a) \/ IsNaN(b) THEN NaN
    ELSE IF IsFin(a) /\ IsFin(b) THEN Fin(QMulDiv(a.v, b.v, SCALE))
    ELSE IF FSign(a) * FSign(b) = 0 THEN NaN
    ELSE Inf(FSign(a) * FSign(b))

\* numpy/pandas float division: x/0 is +-inf, 0/0 is NaN
FDiv(a, b) ==
    IF IsNaN(a) \/ IsNaN(b) THEN NaN
    ELSE IF IsFin(a) /\ IsFin(b) THEN
        IF b.v = 0 THEN (IF a.v = 0 THEN NaN ELSE Inf(Sgn(a.v)))
        ELSE Fin(QMulDiv(a.v, SCALE, b.v))
    ELSE IF IsFin(a) THEN Fin(0)
    ELSE IF IsFin(b) THEN Inf(a.v * (IF b.v < 0 THEN -1 ELSE 1))
    ELSE NaN

\* comparisons: every comparison with NaN is false, except !=
FLt(a, b) ==
    IF IsNaN(a) \/ IsNaN(b) THEN FALSE
    ELSE IF IsFin(a) /\ IsFin(b) THEN a.v < b.v
    ELSE IF IsFin(a) THEN b.v > 0
    ELSE IF IsFin(b) THEN a.v < 0
    ELSE a.v < b.v

FGt(a, b) == FLt(b, a)

FEq(a, b) == ~IsNaN(a) /\ ~IsNaN(b) /\ a = b

FNe(a, b) == ~FEq(a, b)

FGe(a, b) == FGt(a, b) \/ FEq(a, b)

FLe(a, b) == FLt(a, b) \/ FEq(a, b)

\* Python's built-in max(a, b) and min(a, b)
PyMax(a, b) == IF FGt(b, a) THEN b ELSE a

PyMin(a, b) == IF FLt(b, a) THEN b ELSE a

\* the tuple <<F(lo), F(lo + 1), ..., F(hi)>>
RECURSIVE TabRange(_, _, _)
TabRange(F(_), lo, hi) ==
    IF lo > hi THEN <<>>
    ELSE IF lo = hi THEN <<F(lo)>>
    ELSE LET mid == (lo + hi) \div 2
         IN  TabRange(F, lo, mid) \o TabRange(F, mid + 1, hi)

Tab(lo, hi, F(_)) == TabRange(F, lo, hi)

\* sum of the floats s[lo..hi]
RECURSIVE FSumRange(_, _, _)
FSumRange(s, lo, hi) ==
    IF lo > hi THEN Fin(0)
    ELSE IF lo = hi THEN s[lo]
    ELSE LET mid == (lo + hi) \div 2
         IN  FAdd(FSumRange(s, lo, mid), FSumRange(s, mid + 1, hi))

FSum(s) == FSumRange(s, 1, Len(s))

\* the entries of s[lo..hi] that are not NaN
RECURSIVE DropNaRange(_, _, _)
DropNaRange(s, lo, hi) ==
    IF lo > hi THEN <<>>
    ELSE IF lo = hi THEN (IF IsNaN(s[lo]) THEN <<>> ELSE <<s[lo]>>)
    ELSE LET mid == (lo + hi) \div 2
         IN  DropNaRange(s, lo, mid) \o DropNaRange(s, mid + 1, hi)

\* Series.mean(): NaN entries are skipped; NaN when nothing is left
SeriesMean(s) ==
    LET vals == DropNaRange(s, 1, Len(s))
        tot  == FSum(vals)
    IN  IF Len(vals) = 0 THEN NaN
        ELSE IF IsFin(tot) THEN Fin(QMulDiv(tot.v, 1, Len(vals)))
        ELSE tot

\* series.iloc[:-k]
ILocButLast(s, k) == IF Len(s) > k THEN SubSeq(s, 1, Len(s) - k) ELSE <<>>

\* the value before the last one
ILocLastButOne(s) == s[Len(s) - 1]

\* series.iloc[-1]
ILocLast(s) == s[Len(s)]

-----------------------------------------------------------------------------
(* Integer column helpers *)

\* sum of s[lo..hi]
RECURSIVE SumRange(_, _, _)
SumRange(s, lo, hi) ==
    IF lo > hi THEN 0
    ELSE IF lo = hi THEN s[lo]
    ELSE LET mid == (lo + hi) \div 2
         IN  SumRange(s, lo, mid) + SumRange(s, mid + 1, hi)

SumTo(s, i) == SumRange(s, 1, i)

Sum(s) == SumRange(s, 1, Len(s))

Squares(s) == Tab(1, Len(s), LAMBDA i : s[i] * s[i])

\* df[name]
Column(table, name) == Tab(1, Len(table), LAMBDA i : table[i][name])

EmptyDict == [x \in {} |-> 0]

-----------------------------------------------------------------------------
(* Session histories: the content of poker_sessions.json when the tracker  *)
(* loads it.  A record is what PokerTracker.add_session of                  *)
(* poker_tracker.py stores (notes omitted): a session that made or lost    *)
(* v dollars on a 40 dollar buy-in; a break-even session is recorded with  *)
(* buy-in 0.                                                               *)

MaxShort == 4

MaxHead == 40

Values == {-5, 0, 10}

MakeSession(i, v) ==
    [date        |-> [hour |-> (17 + i) % 24, day_of_week |-> i % 7,
                      month |-> (((i - 1) \div 30) % 12) + 1],
     buy_in      |-> IF v = 0 THEN 0 ELSE 40,
     cash_out    |-> IF v = 0 THEN 0 ELSE 40 + v,
     fees        |-> 0,
     profit_loss |-> v]

FromValues(vs) == Tab(1, Len(vs), LAMBDA i : MakeSession(i, vs[i]))

\* every sequence of at most MaxShort results
ShortHistories ==
    UNION {[1..n -> Values] : n \in 0..MaxShort}

\* result generators: a repeated cycle of results or a linear ramp
Cycle(p) == [kind |-> "cycle", pat |-> p, a |-> 0, d |-> 0]

Ramp(a, d) == [kind |-> "ramp", pat |-> <<>>, a |-> a, d |-> d]

\* generators of the older sessions and of the most recent ones
HeadGens ==
    {Cycle(<<10, 10, -5, -5>>), Cycle(<<3, 1>>), Cycle(<<1>>), Cycle(<<0>>),
     Cycle(<<-2>>), Ramp(39, -2), Ramp(-5, 1)}

TailGens ==
    {Cycle(<<10, 10, -5, -5>>), Cycle(<<-5, -5, 10, 10>>), Cycle(<<-3, 3>>),
     Cycle(<<5, -1>>), Ramp(0, -1)}

GenValue(g, i) ==
    IF g.kind = "cycle" THEN g.pat[((i - 1) % Len(g.pat)) + 1]
    ELSE g.a + g.d * (i - 1)

HeadLens == {9, 10, 19, 20, 29, 30, MaxHead}

TailLens == {0, 20}

\* a stretch of h sessions following one generator, then the most recent
\* t sessions following another
TwoPhase(g1, h, g2, t) ==
    Tab(1, h + t, LAMBDA i : IF i <= h THEN GenValue(g1, i) ELSE GenValue(g2, i - h))

LongHistories ==
    {TwoPhase(g1, h, g2, t) : g1 \in HeadGens, h \in HeadLens, g2 \in TailGens, t \in TailLens}

\* histories of the worked examples: a week of wins and losses of one
\* dollar, one session more than the longest window, and equal results
\* up to the last four sessions
Examples ==
    {<<1, 1, -1, 1, 1, 1, -1>>, TwoPhase(Cycle(<<3, 1>>), 51, Cycle(<<3, 1>>), 0),
     TwoPhase(Cycle(<<1>>), 46, Cycle(<<-3, 3>>), 4)}

Histories == {FromValues(vs) : vs \in ShortHistories \cup LongHistories \cup Examples}

-----------------------------------------------------------------------------
(* analytics.py: PokerAnalytics *)

\* session.get('new_deposit', session['buy_in'])
GetNewDeposit(session) ==
    IF "new_deposit" \in DOMAIN session THEN session.new_deposit ELSE session.buy_in

\* (profit_loss / buy_in) * 100 if buy_in > 0 else 0
Roi(session) ==
    IF session.buy_in > 0
    THEN FMul(FDiv(FInt(session.profit_loss), FInt(session.buy_in)), FInt(100))
    ELSE Fin(0)

\* the table built from the sessions taken newest first
CreateDataframeNewestFirst(ss) ==
    LET rev == Tab(1, Len(ss), LAMBDA i : ss[Len(ss) + 1 - i])
        profit_loss == Column(rev, "profit_loss")
    IN  Tab(1, Len(rev), LAMBDA i :
            [date           |-> rev[i].date,
             buy_in         |-> rev[i].buy_in,
             cash_out       |-> rev[i].cash_out,
             fees           |-> rev[i].fees,
             profit_loss    |-> rev[i].profit_loss,
             new_deposit    |-> GetNewDeposit(rev[i]),
             roi            |-> Roi(rev[i]),
             cumulative_pl  |-> SumTo(profit_loss, i),
             session_number |-> i])

\* PokerAnalytics._create_dataframe; the empty DataFrame is <<>>
create_dataframe(ss) ==
    LET profit_loss == Column(ss, "profit_loss")
    IN  Tab(1, Len(ss), LAMBDA i :
            [date           |-> ss[i].date,
             buy_in         |-> ss[i].buy_in,
             cash_out       |-> ss[i].cash_out,
             fees           |-> ss[i].fees,
             profit_loss    |-> ss[i].profit_loss,
             new_deposit    |-> GetNewDeposit(ss[i]),
             roi            |-> Roi(ss[i]),
             cumulative_pl  |-> SumTo(profit_loss, i),
             session_number |-> i])

\* Series.mean() of whole-dollar values
IntMean(xs) == IF Len(xs) = 0 THEN NaN ELSE Fin(QMulDiv(Sum(xs), SCALE, Len(xs)))

\* sample variance and standard deviation (ddof = 1) from the count n, the
\* sum p and the sum of squares q of whole-dollar values
VarOf(n, p, q) ==
    IF n < 2 THEN NaN ELSE Fin(QMulDiv(n * q - p * p, SCALE, n * (n - 1)))

StdOf(n, p, q) ==
    IF n < 2 THEN NaN
    ELSE LET m == n * q - p * p
             r == ISqrt(MulDiv(m, SCALE * SCALE, n * (n - 1)))
         IN  Fin(IF m > 0 /\ r = 0 THEN 1 ELSE r)

IntStd(xs) == StdOf(Len(xs), Sum(xs), Sum(Squares(xs)))

IntVar(xs) == VarOf(Len(xs), Sum(xs), Sum(Squares(xs)))

\* values of xs satisfying a test, in order
RECURSIVE FilterRange(_, _, _, _)
FilterRange(xs, Test(_), lo, hi) ==
    IF lo > hi THEN <<>>
    ELSE IF lo = hi THEN (IF Test(xs[lo]) THEN <<xs[lo]>> ELSE <<>>)
    ELSE LET mid == (lo + hi) \div 2
         IN  FilterRange(xs, Test, lo, mid) \o FilterRange(xs, Test, mid + 1, hi)

Filter(xs, Test(_)) == FilterRange(xs, Test, 1, Len(xs))

IsWin(x) == x > 0

IsLoss(x) == x < 0

\* largest and smallest of xs[lo..hi], lo <= hi
RECURSIVE MaxRange(_, _, _)
MaxRange(xs, lo, hi) ==
    IF lo = hi THEN xs[lo]
    ELSE LET mid == (lo + hi) \div 2
             a   == MaxRange(xs, lo, mid)
             b   == MaxRange(xs, mid + 1, hi)
         IN  IF b > a THEN b ELSE a

RECURSIVE MinRange(_, _, _)
MinRange(xs, lo, hi) ==
    IF lo = hi THEN xs[lo]
    ELSE LET mid == (lo + hi) \div 2
             a   == MinRange(xs, lo, mid)
             b   == MinRange(xs, mid + 1, hi)
         IN  IF b < a THEN b ELSE a

SeqMax(xs) == MaxRange(xs, 1, Len(xs))

SeqMin(xs) == MinRange(xs, 1, Len(xs))

\* ascending sort
RECURSIVE Merge(_, _)
Merge(a, b) ==
    IF a = <<>> THEN b
    ELSE IF b = <<>> THEN a
    ELSE IF a[1] <= b[1] THEN <<a[1]>> \o Merge(Tail(a), b)
    ELSE <<b[1]>> \o Merge(a, Tail(b))

RECURSIVE SortRange(_, _, _)
SortRange(xs, lo, hi) ==
    IF lo > hi THEN <<>>
    ELSE IF lo = hi THEN <<xs[lo]>>
    ELSE LET mid == (lo + hi) \div 2
         IN  Merge(SortRange(xs, lo, mid), SortRange(xs, mid + 1, hi))

Sort(xs) == SortRange(xs, 1, Len(xs))

\* numpy.percentile(xs, q), linear interpolation, of fixed-point values
\* (units of 1/SCALE), as a fixed-point value
PercentileFix(vs, q) ==
    LET srt == Sort(vs)
        pos == (Len(vs) - 1) * q
        lo  == pos \div 100 + 1
        rem == pos % 100
    IN  IF rem = 0 THEN srt[lo]
        ELSE srt[lo] + QMulDiv(srt[lo + 1] - srt[lo], rem, 100)

Scaled(xs) == Tab(1, Len(xs), LAMBDA i : xs[i] * SCALE)

\* Series.median()
IntMedian(xs) == Fin(PercentileFix(Scaled(xs), 50))

\* PokerAnalytics.basic_stats (skewness and kurtosis are not modelled)
basic_stats(table) ==
    IF Len(table) = 0 THEN EmptyDict
    ELSE LET pl_series == Column(table, "profit_loss")
             wins      == Sum(Filter(pl_series, IsWin))
             losses    == Sum(Filter(pl_series, IsLoss))
         IN  [total_sessions     |-> Len(table),
              win_rate           |-> FMul(Fin(QMulDiv(Len(Filter(pl_series, IsWin)), SCALE, Len(table))), FInt(100)),
              mean_profit_loss   |-> IntMean(pl_series),
              median_profit_loss |-> IntMedian(pl_series),
              std_dev            |-> IntStd(pl_series),
              variance           |-> IntVar(pl_series),
              max_win            |-> SeqMax(pl_series),
              max_loss           |-> SeqMin(pl_series),
              profit_factor      |-> IF losses # 0
                                     THEN FAbs(FDiv(FInt(wins), FInt(losses)))
                                     ELSE Inf(1)]

\* the running maximum counted from a bankroll of 0 before the first session
ExpandingMaxFromZero(xs) ==
    Tab(1, Len(xs), LAMBDA i : IF MaxRange(xs, 1, i) > 0 THEN MaxRange(xs, 1, i) ELSE 0)

\* cumulative_pl.expanding().max()
RECURSIVE ExpandingMaxTo(_, _)
ExpandingMaxTo(xs, i) ==
    IF i = 0 THEN <<>>
    ELSE IF i = 1 THEN <<xs[1]>>
    ELSE LET before == ExpandingMaxTo(xs, i - 1)
         IN  Append(before, IF xs[i] > before[i - 1] THEN xs[i] ELSE before[i - 1])

ExpandingMax(xs) == ExpandingMaxTo(xs, Len(xs))

\* PokerAnalytics.risk_metrics
risk_metrics(table) ==
    IF Len(table) = 0 \/ Len(table) < 2 THEN EmptyDict
    ELSE LET pl_series     == Column(table, "profit_loss")
             cumulative_pl == Column(table, "cumulative_pl")
             running_max   == ExpandingMax(cumulative_pl)
             drawdown      == Tab(1, Len(table), LAMBDA i : cumulative_pl[i] - running_max[i])
             std           == IntStd(pl_series)
             var_95        == PercentileFix(Scaled(pl_series), 5)
             tail          == Filter(pl_series, LAMBDA x : x * SCALE <= var_95)
             downside      == Filter(pl_series, IsLoss)
         IN  [max_drawdown          |-> SeqMin(drawdown),
              current_drawdown      |-> drawdown[Len(drawdown)],
              sharpe_ratio          |-> IF FGt(std, Fin(0))
                                        THEN FDiv(IntMean(pl_series), std) ELSE Fin(0),
              var_95                |-> Fin(var_95),
              expected_shortfall_95 |-> IntMean(tail),
              volatility            |-> std,
              downside_deviation    |-> IntStd(downside)]

\* get_streaks: lengths of the maximal runs of 1 in a 0/1 series
RECURSIVE GetStreaks(_, _, _, _)
GetStreaks(series, i, current_streak, streaks) ==
    IF i > Len(series)
    THEN (IF current_streak > 0 THEN Append(streaks, current_streak) ELSE streaks)
    ELSE IF series[i] = 1
    THEN GetStreaks(series, i + 1, current_streak + 1, streaks)
    ELSE GetStreaks(series, i + 1, 0,
                    IF current_streak > 0 THEN Append(streaks, current_streak) ELSE streaks)

\* get_streaks without the run that is still open at the end of the series
GetStreaksWithoutLast(series) ==
    LET streaks == GetStreaks(series, 1, 0, <<>>)
    IN  IF Len(series) > 0 /\ series[Len(series)] = 1
        THEN SubSeq(streaks, 1, Len(streaks) - 1) ELSE streaks

get_streaks(series) == GetStreaks(series, 1, 0, <<>>)

\* PokerAnalytics._current_streak, as <<streak, streak_type>>
RECURSIVE StreakBack(_, _, _)
StreakBack(pl, i, streak_type) ==
    IF i = 0 THEN 0
    ELSE IF (pl[i] > 0 /\ streak_type = "winning") \/ (pl[i] < 0 /\ streak_type = "losing")
    THEN 1 + StreakBack(pl, i - 1, streak_type)
    ELSE 0

\* the streak measured forward from the first session
CurrentStreakFromStart(table) ==
    IF Len(table) = 0 THEN <<0, "No sessions">>
    ELSE LET pl == Column(table, "profit_loss")
             streak_type == IF pl[1] > 0 THEN "winning" ELSE "losing"
             InStreak(i) == \/ pl[i] > 0 /\ streak_type = "winning"
                            \/ pl[i] < 0 /\ streak_type = "losing"
             streak == CHOOSE k \in 0..Len(pl) :
                           /\ \A i \in 1..k : InStreak(i)
                           /\ k < Len(pl) => ~InStreak(k + 1)
         IN  <<streak, streak_type>>

current_streak(table) ==
    IF Len(table) = 0 THEN <<0, "No sessions">>
    ELSE LET pl == Column(table, "profit_loss")
             streak_type == IF pl[Len(pl)] > 0 THEN "winning" ELSE "losing"
         IN  <<StreakBack(pl, Len(pl), streak_type), streak_type>>

\* PokerAnalytics.streak_analysis
streak_analysis(table) ==
    IF Len(table) = 0 THEN EmptyDict
    ELSE LET pl_series    == Column(table, "profit_loss")
             wins         == Tab(1, Len(table), LAMBDA i : IF pl_series[i] > 0 THEN 1 ELSE 0)
             losses       == Tab(1, Len(table), LAMBDA i : IF pl_series[i] < 0 THEN 1 ELSE 0)
             win_streaks  == get_streaks(wins)
             loss_streaks == get_streaks(losses)
         IN  [max_win_streak  |-> IF win_streaks # <<>> THEN SeqMax(win_streaks) ELSE 0,
              max_loss_streak |-> IF loss_streaks # <<>> THEN SeqMax(loss_streaks) ELSE 0,
              avg_win_streak  |-> IF win_streaks # <<>> THEN IntMean(win_streaks) ELSE Fin(0),
              avg_loss_streak |-> IF loss_streaks # <<>> THEN IntMean(loss_streaks) ELSE Fin(0),
              current_streak  |-> current_streak(table)]

\* a table with the columns hour, day_of_week and month added
WithPeriods(table) ==
    Tab(1, Len(table), LAMBDA i :
        [c \in DOMAIN table[i] \cup {"hour", "day_of_week", "month"} |->
            IF c \in {"hour", "day_of_week", "month"} THEN table[i].date[c]
            ELSE table[i][c]])

\* df.groupby(key)['profit_loss'].agg(['mean', 'count'])
GroupBy(table, key) ==
    LET keys == {table[i][key] : i \in 1..Len(table)}
        pls(kv) == Column(Filter(table, LAMBDA row : row[key] = kv), "profit_loss")
    IN  [kv \in keys |-> [mean |-> IntMean(pls(kv)), count |-> Len(pls(kv))]]

\* PokerAnalytics.performance_by_period
performance_by_period(table) ==
    IF Len(table) = 0 THEN EmptyDict
    ELSE LET copy == WithPeriods(table)
         IN  [by_hour        |-> GroupBy(copy, "hour"),
              by_day_of_week |-> GroupBy(copy, "day_of_week"),
              by_month       |-> GroupBy(copy, "month")]

\* self.df had the period columns been added to it and not to a copy
DfWithoutCopy(table) == IF Len(table) = 0 THEN table ELSE WithPeriods(table)

\* self.df once performance_by_period has returned: the period columns
\* were added to df.copy(), self.df keeps its columns
DfAfterPeriods(table) == table

\* the Kelly fraction without its floor at 0
KellyUnfloored(win_rate, avg_win, avg_loss) ==
    LET b == FDiv(avg_win, avg_loss)
        p == win_rate
        q == FSub(FInt(1), p)
    IN  FDiv(FSub(FMul(b, p), q), b)

\* the edge b*p - q without the division by b
KellyFractionUndivided(win_rate, avg_win, avg_loss) ==
    LET b == FDiv(avg_win, avg_loss)
        p == win_rate
        q == FSub(FInt(1), p)
    IN  PyMax(Fin(0), FSub(FMul(b, p), q))

\* Kelly = (bp - q) / b, where b = avg_win/avg_loss, p = win_rate, q = 1-p
KellyFraction(win_rate, avg_win, avg_loss) ==
    LET b == FDiv(avg_win, avg_loss)
        p == win_rate
        q == FSub(FInt(1), p)
        kelly_fraction == FDiv(FSub(FMul(b, p), q), b)
    IN  PyMax(Fin(0), kelly_fraction)

\* PokerAnalytics.kelly_criterion
kelly_criterion(table) ==
    IF Len(table) = 0 THEN Fin(0)
    ELSE LET pl     == Column(table, "profit_loss")
             wins   == Filter(pl, IsWin)
             losses == Filter(pl, IsLoss)
         IN  IF Len(wins) = 0 \/ Len(losses) = 0 THEN Fin(0)
             ELSE LET win_rate == Fin(QMulDiv(Len(wins), SCALE, Len(table)))
                      avg_win  == IntMean(wins)
                      avg_loss == FAbs(IntMean(losses))
                  IN  IF FEq(avg_loss, Fin(0)) THEN Fin(0)
                      ELSE KellyFraction(win_rate, avg_win, avg_loss)

\* The stream of standard normal variates of numpy's global generator, in
\* units of 1/SCALE: np.random.normal delivers them in this order, each
\* one once, to whoever draws next.
StandardNormal == <<496, -138, 647, 1523, -234, -1913, 1579, 767, -469, 542>>

\* np.random.normal(loc, scale, size) with the generator at position pos
RandomNormal(loc, scale, size, pos) ==
    Tab(1, size, LAMBDA j : FAdd(loc, FMul(scale, Fin(StandardNormal[pos + j]))))

\* ndarray.std() of fixed-point values: the population standard deviation
\* (ddof = 0), to 1/100
PopStd(vs) ==
    LET n    == Len(vs)
        mean == Sum(vs) \div n
        dev  == Tab(1, n, LAMBDA i : (vs[i] - mean) \div 10)
    IN  10 * ISqrt(Sum(Squares(dev)) \div n)

\* PokerAnalytics.monte_carlo_simulation with the generator at position pos
monte_carlo_simulation(table, num_simulations, sessions_ahead, pos) ==
    IF Len(table) = 0 THEN EmptyDict
    ELSE LET pl_series == Column(table, "profit_loss")
             mean_pl   == IntMean(pl_series)
             std_pl    == IntStd(pl_series)
             final_pls ==
                 Tab(1, num_simulations, LAMBDA k :
                     FSum(RandomNormal(mean_pl, std_pl, sessions_ahead,
                                       pos + (k - 1) * sessions_ahead)))
             vs        == Tab(1, num_simulations, LAMBDA k : final_pls[k].v)
             finite    == \A k \in 1..num_simulations : IsFin(final_pls[k])
             profit    == Cardinality({k \in 1..num_simulations : FGt(final_pls[k], Fin(0))})
         IN  [mean_expected_pl   |-> IF finite THEN Fin(QMulDiv(Sum(vs), 1, num_simulations)) ELSE NaN,
              median_expected_pl |-> IF finite THEN Fin(PercentileFix(vs, 50)) ELSE NaN,
              std_expected_pl    |-> IF finite THEN Fin(PopStd(vs)) ELSE NaN,
              prob_profit        |-> FMul(Fin(QMulDiv(profit, SCALE, num_simulations)), FInt(100)),
              percentile_5       |-> IF finite THEN Fin(PercentileFix(vs, 5)) ELSE NaN,
              percentile_95      |-> IF finite THEN Fin(PercentileFix(vs, 95)) ELSE NaN,
              sessions_simulated |-> sessions_ahead,
              simulations_run    |-> num_simulations]

-----------------------------------------------------------------------------
(* alpha_decay.py: AlphaDecayAnalyzer *)

\* the windows without the longest one
LookbackWithoutLongest == <<10, 20>>

\* the default of __init__'s lookback_periods
lookback_periods == <<10, 20, 50>>

\* f'{period}_session'
PeriodKey(period) ==
    CASE period = 10 -> "10_session"
      [] period = 20 -> "20_session"
      [] period = 50 -> "50_session"

\* AlphaDecayAnalyzer._create_dataframe
alpha_create_dataframe(ss) ==
    LET profit_loss == Column(ss, "profit_loss")
    IN  Tab(1, Len(ss), LAMBDA i :
            [date           |-> ss[i].date,
             profit_loss    |-> ss[i].profit_loss,
             buy_in         |-> ss[i].buy_in,
             roi            |-> Roi(ss[i]),
             cumulative_pl  |-> SumTo(profit_loss, i),
             session_number |-> i])

\* Series.rolling(window).mean(): NaN until the window is full
RollingMean(xs, window) ==
    Tab(1, Len(xs), LAMBDA i :
        IF i < window THEN NaN
        ELSE Fin(QMulDiv(SumRange(xs, i - window + 1, i), SCALE, window)))

\* Series.rolling(window).std(): sample standard deviation of each window
RollingStd(xs, window) ==
    LET sq == Squares(xs)
    IN  Tab(1, Len(xs), LAMBDA i :
            IF i < window THEN NaN
            ELSE StdOf(window, SumRange(xs, i - window + 1, i),
                       SumRange(sq, i - window + 1, i)))

\* Series.rolling(window).apply(lambda x: (x > 0).mean() * 100)
RollingWinrate(xs, window) ==
    LET won == Tab(1, Len(xs), LAMBDA i : IF xs[i] > 0 THEN 1 ELSE 0)
    IN  Tab(1, Len(xs), LAMBDA i :
            IF i < window THEN NaN
            ELSE FMul(Fin(QMulDiv(SumRange(won, i - window + 1, i), SCALE, window)),
                      FInt(100)))

\* ((current - historical) / abs(historical) * 100) if historical != 0 else 0
Deterioration(current, historical) ==
    IF FNe(historical, Fin(0))
    THEN FMul(FDiv(FSub(current, historical), FAbs(historical)), FInt(100))
    ELSE Fin(0)

RollingEntry(pl, period) ==
    LET rolling_mean       == RollingMean(pl, period)
        rolling_std        == RollingStd(pl, period)
        rolling_sharpe     == Tab(1, Len(pl), LAMBDA i : FDiv(rolling_mean[i], rolling_std[i]))
        rolling_winrate    == RollingWinrate(pl, period)
        current_mean       == ILocLast(rolling_mean)
        historical_mean    == SeriesMean(ILocButLast(rolling_mean, period))
        current_sharpe     == ILocLast(rolling_sharpe)
        historical_sharpe  == SeriesMean(ILocButLast(rolling_sharpe, period))
        current_winrate    == ILocLast(rolling_winrate)
        historical_winrate == SeriesMean(ILocButLast(rolling_winrate, period))
    IN  [current_avg_pl        |-> current_mean,
         historical_avg_pl     |-> historical_mean,
         pl_deterioration      |-> Deterioration(current_mean, historical_mean),
         current_sharpe        |-> current_sharpe,
         historical_sharpe     |-> historical_sharpe,
         sharpe_deterioration  |-> Deterioration(current_sharpe, historical_sharpe),
         current_winrate       |-> current_winrate,
         historical_winrate    |-> historical_winrate,
         winrate_deterioration |-> FSub(current_winrate, historical_winrate),
         rolling_series        |-> [mean    |-> rolling_mean,
                                    sharpe  |-> rolling_sharpe,
                                    winrate |-> rolling_winrate]]

\* AlphaDecayAnalyzer.rolling_performance_analysis
rolling_performance_analysis(table) ==
    IF Len(table) < SeqMax(lookback_periods)
    THEN [error |-> "Need at least " \o ToString(SeqMax(lookback_periods)) \o " sessions"]
    ELSE LET pl == Column(table, "profit_loss")
         IN  [key \in {PeriodKey(lookback_periods[j]) : j \in 1..Len(lookback_periods)} |->
                 RollingEntry(pl, CHOOSE p \in {lookback_periods[j] : j \in 1..Len(lookback_periods)} :
                                      PeriodKey(p) = key)]

\* Two-sided t-test of scipy.stats.linregress with n - 2 degrees of freedom:
\* p_value < alpha exactly when r^2 exceeds the critical value for alpha.
\* R2Crit[n] lists the critical r^2, in millionths, for alpha = 0.01, 0.05
\* and 0.10 and n = 10 .. 72 points.
R2CritTable ==
    <<<<584601, 399293, 301792>>, <<539910, 362486, 271862>>,
      <<501104, 331756, 247272>>, <<467210, 305745, 226724>>,
      <<437417, 283463, 209306>>, <<411066, 264172, 194358>>,
      <<387619, 247316, 181392>>, <<366637, 232464, 170041>>,
      <<347763, 219283, 160021>>, <<330701, 207508, 151113>>,
      <<315209, 196925, 143141>>, <<301083, 187365, 135966>>,
      <<288153, 178686, 129475>>, <<276276, 170773, 123574>>,
      <<265329, 163528, 118186>>, <<255208, 156871, 113248>>,
      <<245825, 150733, 108705>>, <<237102, 145056, 104512>>,
      <<228972, 139790, 100630>>, <<221378, 134892, 97025>>,
      <<214269, 130325, 93670>>, <<207599, 126057, 90539>>,
      <<201330, 122059, 87610>>, <<195427, 118306, 84865>>,
      <<189858, 114777, 82286>>, <<184597, 111452, 79859>>,
      <<179618, 108314, 77571>>, <<174900, 105347, 75410>>,
      <<170422, 102539, 73367>>, <<166167, 99876, 71431>>,
      <<162119, 97347, 69595>>, <<158263, 94944, 67850>>,
      <<154586, 92656, 66191>>, <<151075, 90476, 64612>>,
      <<147719, 88396, 63105>>, <<144509, 86409, 61668>>,
      <<141435, 84510, 60294>>, <<138489, 82692, 58980>>,
      <<135663, 80951, 57722>>, <<132950, 79281, 56517>>,
      <<130343, 77679, 55361>>, <<127836, 76140, 54251>>,
      <<125424, 74662, 53185>>, <<123100, 73239, 52160>>,
      <<120862, 71869, 51174>>, <<118702, 70550, 50224>>,
      <<116619, 69279, 49309>>, <<114607, 68052, 48427>>,
      <<112664, 66868, 47575>>, <<110785, 65724, 46753>>,
      <<108968, 64619, 45959>>, <<107209, 63551, 45192>>,
      <<105507, 62517, 44450>>, <<103857, 61516, 43731>>,
      <<102258, 60547, 43036>>, <<100707, 59608, 42362>>,
      <<99203, 58697, 41709>>, <<97743, 57814, 41076>>,
      <<96326, 56957, 40462>>, <<94948, 56125, 39866>>,
      <<93610, 55318, 39287>>, <<92309, 54532, 38725>>,
      <<91043, 53769, 38178>>>>

R2Crit(n) == R2CritTable[n - 9]

\* the p_value of the regression, as the significance bucket it falls in
PBucket(n, r2) ==
    IF r2 > R2Crit(n)[1] THEN "p < 0.01"
    ELSE IF r2 > R2Crit(n)[2] THEN "p < 0.05"
    ELSE IF r2 > R2Crit(n)[3] THEN "p < 0.10"
    ELSE "p >= 0.10"

\* greatest common factor of ys[lo..hi]; 0 when all are 0
RECURSIVE GcdRange(_, _, _)
GcdRange(ys, lo, hi) ==
    IF lo > hi THEN 0
    ELSE IF lo = hi THEN Abs(ys[lo])
    ELSE LET mid == (lo + hi) \div 2
         IN  Gcd(GcdRange(ys, lo, mid), GcdRange(ys, mid + 1, hi))

\* scipy.stats.linregress(x, y) for whole x and for y given in units of
\* 1/unit.  slope, r and p do not depend on a common factor of y, so the
\* sums are formed over y divided by its greatest common factor.
linregress(x, ys, unit) ==
    LET n   == Len(x)
        g0  == GcdRange(ys, 1, n)
        g   == IF g0 = 0 THEN 1 ELSE g0
        y   == Tab(1, n, LAMBDA i : ys[i] \div g)
        sxy == n * Sum(Tab(1, n, LAMBDA i : x[i] * y[i])) - Sum(x) * Sum(y)
        sxx == n * Sum(Squares(x)) - Sum(x) * Sum(x)
        syy == n * Sum(Squares(y)) - Sum(y) * Sum(y)
        r2  == IF sxx = 0 \/ syy = 0 THEN 0
               ELSE MulDiv(MulDiv(Abs(sxy), SCALE * SCALE, sxx), Abs(sxy), syy)
        r   == ISqrt(r2)
    IN  [slope   |-> Fin(QMulDiv(QMulDiv(sxy, SCALE, sxx), g, unit)),
         r_value |-> Fin(Sgn(sxy) * (IF r2 > 0 /\ r = 0 THEN 1 ELSE r)),
         r2      |-> r2,
         p_value |-> PBucket(n, r2)]

\* the entry of a metric with a slope of 0 counted as improving
TrendEntryFlatImproving(reg) ==
    LET significance ==
            IF reg.p_value = "p < 0.01" THEN "Highly Significant"
            ELSE IF reg.p_value = "p < 0.05" THEN "Significant"
            ELSE IF reg.p_value = "p < 0.10" THEN "Marginally Significant"
            ELSE "Not Significant"
        trend_direction == IF FGe(reg.slope, Fin(0)) THEN "Improving" ELSE "Deteriorating"
    IN  [slope           |-> reg.slope,
         r_squared       |-> FMul(reg.r_value, reg.r_value),
         p_value         |-> reg.p_value,
         trend_direction |-> trend_direction,
         significance    |-> significance,
         trend_strength  |-> FAbs(reg.r_value)]

\* AlphaDecayAnalyzer.trend_analysis
TrendEntry(reg) ==
    LET significance ==
            IF reg.p_value = "p < 0.01" THEN "Highly Significant"
            ELSE IF reg.p_value = "p < 0.05" THEN "Significant"
            ELSE IF reg.p_value = "p < 0.10" THEN "Marginally Significant"
            ELSE "Not Significant"
        trend_direction == IF FGt(reg.slope, Fin(0)) THEN "Improving" ELSE "Deteriorating"
    IN  [slope           |-> reg.slope,
         r_squared       |-> FMul(reg.r_value, reg.r_value),
         p_value         |-> reg.p_value,
         trend_direction |-> trend_direction,
         significance    |-> significance,
         trend_strength  |-> FAbs(reg.r_value)]

trend_analysis(table) ==
    IF Len(table) < 10
    THEN [error |-> "Need at least 10 sessions for trend analysis"]
    ELSE LET session_numbers == Column(table, "session_number")
             roi == Column(table, "roi")
         IN  [profit_loss   |-> TrendEntry(linregress(session_numbers, Column(table, "profit_loss"), 1)),
              cumulative_pl |-> TrendEntry(linregress(session_numbers, Column(table, "cumulative_pl"), 1)),
              roi           |-> TrendEntry(linregress(session_numbers,
                                               Tab(1, Len(table), LAMBDA i : roi[i].v), SCALE))]

\* one turn of the loop that takes a crossover only from a strict
\* inequality at the position before
CrossoverAtStrict(short_ma, long_ma, i) ==
    LET s0 == short_ma[i]
        l0 == long_ma[i]
        s1 == short_ma[i + 1]
        l1 == long_ma[i + 1]
    IN  IF ~IsNaN(s1) /\ ~IsNaN(l1)
        THEN IF FLt(s0, l0) /\ FGt(s1, l1) THEN <<<<"bullish", i>>>>
             ELSE IF FGt(s0, l0) /\ FLt(s1, l1) THEN <<<<"bearish", i>>>>
             ELSE <<>>
        ELSE <<>>

\* the crossovers found by the loop `for i in range(long_window, len(short_ma))`,
\* as <<type, i>> with the 0-based position i of the code
\* one turn of the loop at the 0-based position i
CrossoverAt(short_ma, long_ma, i) ==
    LET s0 == short_ma[i]
        l0 == long_ma[i]
        s1 == short_ma[i + 1]
        l1 == long_ma[i + 1]
    IN  IF ~IsNaN(s1) /\ ~IsNaN(l1)
        THEN IF FLe(s0, l0) /\ FGt(s1, l1) THEN <<<<"bullish", i>>>>
             ELSE IF FGe(s0, l0) /\ FLt(s1, l1) THEN <<<<"bearish", i>>>>
             ELSE <<>>
        ELSE <<>>

RECURSIVE Crossovers(_, _, _, _)
Crossovers(short_ma, long_ma, lo, hi) ==
    IF lo > hi THEN <<>>
    ELSE IF lo = hi THEN CrossoverAt(short_ma, long_ma, lo)
    ELSE LET mid == (lo + hi) \div 2
         IN  Crossovers(short_ma, long_ma, lo, mid) \o Crossovers(short_ma, long_ma, mid + 1, hi)

\* the first three crossovers instead of the last three
FirstThree(cs) == IF Len(cs) <= 3 THEN cs ELSE SubSeq(cs, 1, 3)

\* crossovers[-3:]
LastThree(cs) == IF Len(cs) <= 3 THEN cs ELSE SubSeq(cs, Len(cs) - 2, Len(cs))

\* AlphaDecayAnalyzer.regime_change_detection
regime_change_detection(table) ==
    IF Len(table) < 20
    THEN [error |-> "Need at least 20 sessions for regime detection"]
    ELSE LET pl_series    == Column(table, "profit_loss")
             short_window == 5
             long_window  == 15
         IN  IF Len(pl_series) < long_window
             THEN [error |-> "Need at least " \o ToString(long_window) \o " sessions"]
             ELSE LET short_ma   == RollingMean(pl_series, short_window)
                      long_ma    == RollingMean(pl_series, long_window)
                      crossovers == Crossovers(short_ma, long_ma, long_window, Len(short_ma) - 1)
                      current_regime ==
                          IF Len(short_ma) > 0 /\ Len(long_ma) > 0
                          THEN IF FGt(ILocLast(short_ma), ILocLast(long_ma))
                               THEN "Good Performance" ELSE "Poor Performance"
                          ELSE "Neutral"
                  IN  [current_regime       |-> current_regime,
                       recent_crossovers    |-> LastThree(crossovers),
                       total_regime_changes |-> Len(crossovers),
                       short_ma_current     |-> IF Len(short_ma) > 0 THEN ILocLast(short_ma) ELSE Fin(0),
                       long_ma_current      |-> IF Len(long_ma) > 0 THEN ILocLast(long_ma) ELSE Fin(0)]

\* the guard of volatility_clustering, one session too lenient
VolatilityTooShortByOne(table) == Len(table) < 9

\* the guard of volatility_clustering
VolatilityTooShort(table) == Len(table) < 10

\* AlphaDecayAnalyzer.volatility_clustering
volatility_clustering(table) ==
    IF VolatilityTooShort(table)
    THEN [error |-> "Need at least 10 sessions"]
    ELSE LET pl_series        == Column(table, "profit_loss")
             rolling_vol_5    == RollingStd(pl_series, 5)
             current_vol_5    == IF Len(rolling_vol_5) > 0 THEN ILocLast(rolling_vol_5) ELSE Fin(0)
             historical_vol_5 == IF Len(rolling_vol_5) > 5
                                 THEN SeriesMean(ILocButLast(rolling_vol_5, 5)) ELSE Fin(0)
             vol_regime ==
                 IF FGt(current_vol_5, FMul(historical_vol_5, Dec(15, 10))) THEN "High Volatility"
                 ELSE IF FLt(current_vol_5, FMul(historical_vol_5, Dec(7, 10))) THEN "Low Volatility"
                 ELSE "Normal"
         IN  [current_volatility_5session    |-> current_vol_5,
              historical_volatility_5session |-> historical_vol_5,
              volatility_ratio  |-> IF FGt(historical_vol_5, Fin(0))
                                    THEN FDiv(current_vol_5, historical_vol_5) ELSE FInt(1),
              volatility_regime |-> vol_regime,
              volatility_trend  |-> IF Len(rolling_vol_5) >= 5
                                    THEN SubSeq(rolling_vol_5, Len(rolling_vol_5) - 4, Len(rolling_vol_5))
                                    ELSE <<>>]

HasError(result) == "error" \in DOMAIN result

\* Factor 1 with the three terms under the guard of the P/L term
PerformanceGatedTogether(rolling_perf) ==
    IF "20_session" \in DOMAIN rolling_perf
    THEN LET pl_deterioration      == rolling_perf["20_session"].pl_deterioration
             sharpe_deterioration  == rolling_perf["20_session"].sharpe_deterioration
             winrate_deterioration == rolling_perf["20_session"].winrate_deterioration
         IN  IF FLt(pl_deterioration, Fin(0))
             THEN FAdd(FAdd(PyMax(Fin(0), PyMin(FInt(40), FNeg(pl_deterioration))),
                            PyMax(Fin(0), PyMin(FInt(20), FDiv(FNeg(sharpe_deterioration), FInt(2))))),
                       PyMax(Fin(0), PyMin(FInt(20), FNeg(winrate_deterioration))))
             ELSE Fin(0)
    ELSE Fin(0)

\* Factor 1: recent performance vs historical
PerformanceComponent(rolling_perf) ==
    IF "20_session" \in DOMAIN rolling_perf
    THEN LET pl_deterioration      == rolling_perf["20_session"].pl_deterioration
             sharpe_deterioration  == rolling_perf["20_session"].sharpe_deterioration
             winrate_deterioration == rolling_perf["20_session"].winrate_deterioration
             pl_component ==
                 IF FLt(pl_deterioration, Fin(0))
                 THEN PyMax(Fin(0), PyMin(FInt(40), FNeg(pl_deterioration))) ELSE Fin(0)
             sharpe_component ==
                 IF FLt(sharpe_deterioration, Fin(0))
                 THEN PyMax(Fin(0), PyMin(FInt(20), FDiv(FNeg(sharpe_deterioration), FInt(2))))
                 ELSE Fin(0)
             winrate_component ==
                 IF FLt(winrate_deterioration, Fin(0))
                 THEN PyMax(Fin(0), PyMin(FInt(20), FNeg(winrate_deterioration))) ELSE Fin(0)
         IN  FAdd(FAdd(pl_component, sharpe_component), winrate_component)
    ELSE Fin(0)

\* significance_multiplier.get(significance, 0.1)
SignificanceMultiplier(significance) ==
    CASE significance = "Highly Significant" -> Dec(10, 10)
      [] significance = "Significant" -> Dec(7, 10)
      [] significance = "Marginally Significant" -> Dec(4, 10)
      [] significance = "Not Significant" -> Dec(1, 10)
      [] OTHER -> Dec(1, 10)

\* Factor 2 charged for the trend of cumulative_pl when profit_loss is
\* not deteriorating
TrendComponentAnyMetric(trends) ==
    IF "profit_loss" \in DOMAIN trends /\ trends.profit_loss.trend_direction = "Deteriorating"
    THEN FMul(FMul(trends.profit_loss.trend_strength, FInt(30)),
              SignificanceMultiplier(trends.profit_loss.significance))
    ELSE IF "cumulative_pl" \in DOMAIN trends /\ trends.cumulative_pl.trend_direction = "Deteriorating"
    THEN FMul(FMul(trends.cumulative_pl.trend_strength, FInt(30)),
              SignificanceMultiplier(trends.cumulative_pl.significance))
    ELSE Fin(0)

\* Factor 2: trend analysis
TrendComponent(trends) ==
    IF "profit_loss" \in DOMAIN trends /\ trends.profit_loss.trend_direction = "Deteriorating"
    THEN FMul(FMul(trends.profit_loss.trend_strength, FInt(30)),
              SignificanceMultiplier(trends.profit_loss.significance))
    ELSE Fin(0)

\* Factor 3 charged to the good regime
RegimeComponentInverted(regime) ==
    IF regime.current_regime = "Good Performance" THEN FInt(20) ELSE Fin(0)

\* Factor 3: regime change
RegimeComponent(regime) ==
    IF regime.current_regime = "Poor Performance" THEN FInt(20) ELSE Fin(0)

\* Factor 4 charged in every volatility regime
VolatilityComponentAnyRegime(volatility) ==
    PyMin(FInt(10), FMul(FSub(volatility.volatility_ratio, FInt(1)), FInt(10)))

\* Factor 4: volatility increase
VolatilityComponent(volatility) ==
    IF volatility.volatility_regime = "High Volatility"
    THEN PyMin(FInt(10), FMul(FSub(volatility.volatility_ratio, FInt(1)), FInt(10)))
    ELSE Fin(0)

\* the classification with strict comparisons
ClassifyStrict(decay_score) ==
    IF FGt(decay_score, FInt(70))
    THEN [decay_level    |-> "SEVERE ALPHA DECAY",
          recommendation |-> "STOP PLAYING - Your edge has significantly deteriorated"]
    ELSE IF FGt(decay_score, FInt(50))
    THEN [decay_level    |-> "MODERATE ALPHA DECAY",
          recommendation |-> "REDUCE STAKES - Review strategy and take a break"]
    ELSE IF FGt(decay_score, FInt(30))
    THEN [decay_level    |-> "MILD ALPHA DECAY",
          recommendation |-> "CAUTION - Monitor closely and consider strategy review"]
    ELSE IF FGt(decay_score, FInt(15))
    THEN [decay_level    |-> "SLIGHT DETERIORATION",
          recommendation |-> "WATCH - Some performance decline detected"]
    ELSE [decay_level    |-> "STABLE/IMPROVING",
          recommendation |-> "CONTINUE - Performance remains strong"]

\* Classify decay level
Classify(decay_score) ==
    IF FGe(decay_score, FInt(70))
    THEN [decay_level    |-> "SEVERE ALPHA DECAY",
          recommendation |-> "STOP PLAYING - Your edge has significantly deteriorated"]
    ELSE IF FGe(decay_score, FInt(50))
    THEN [decay_level    |-> "MODERATE ALPHA DECAY",
          recommendation |-> "REDUCE STAKES - Review strategy and take a break"]
    ELSE IF FGe(decay_score, FInt(30))
    THEN [decay_level    |-> "MILD ALPHA DECAY",
          recommendation |-> "CAUTION - Monitor closely and consider strategy review"]
    ELSE IF FGe(decay_score, FInt(15))
    THEN [decay_level    |-> "SLIGHT DETERIORATION",
          recommendation |-> "WATCH - Some performance decline detected"]
    ELSE [decay_level    |-> "STABLE/IMPROVING",
          recommendation |-> "CONTINUE - Performance remains strong"]

\* the error test with the rolling performance result left out
AnyErrorButRolling(rolling_perf, trends, regime, volatility) ==
    \/ HasError(trends)
    \/ HasError(regime)
    \/ HasError(volatility)

\* any("error" in result for result in [rolling_perf, trends, regime, volatility])
AnyError(rolling_perf, trends, regime, volatility) ==
    \/ HasError(rolling_perf)
    \/ HasError(trends)
    \/ HasError(regime)
    \/ HasError(volatility)

\* the sum of the four factors held to the 0-100 scale
DecayScoreClamped(rolling_perf, trends, regime, volatility) ==
    PyMin(FInt(100),
          FAdd(FAdd(FAdd(FAdd(Fin(0), PerformanceComponent(rolling_perf)),
                         TrendComponent(trends)),
                    RegimeComponent(regime)),
               VolatilityComponent(volatility)))

\* decay_score once the four factors are added
DecayScore(rolling_perf, trends, regime, volatility) ==
    FAdd(FAdd(FAdd(FAdd(Fin(0), PerformanceComponent(rolling_perf)),
                   TrendComponent(trends)),
              RegimeComponent(regime)),
         VolatilityComponent(volatility))

\* the result of alpha_decay_score once decay_score is known
ScoreResult(decay_score, regime) ==
    LET level == Classify(decay_score)
    IN  [alpha_decay_score |-> decay_score,
         decay_level       |-> level.decay_level,
         recommendation    |-> level.recommendation,
         component_scores  |->
             [performance_deterioration |-> PyMin(FInt(80), FMul(decay_score, Dec(4, 10))),
              negative_trend            |-> PyMin(FInt(30), FMul(decay_score, Dec(3, 10))),
              regime_change             |-> RegimeComponent(regime),
              volatility_increase       |-> PyMin(FInt(10), FMul(decay_score, Dec(1, 10)))]]

\* alpha_decay_score from the results of its four dependencies
ScoreFrom(rolling_perf, trends, regime, volatility) ==
    IF AnyError(rolling_perf, trends, regime, volatility)
    THEN [error |-> "Insufficient data for alpha decay analysis"]
    ELSE CHOOSE result \in
             {ScoreResult(decay_score, regime) :
                  decay_score \in {DecayScore(rolling_perf, trends, regime, volatility)}} : TRUE

\* AlphaDecayAnalyzer.alpha_decay_score: each dependency is called once and
\* its result kept
alpha_decay_score(table) ==
    CHOOSE result \in
        {ScoreFrom(rolling_perf, trends, regime, volatility) :
             rolling_perf \in {rolling_performance_analysis(table)},
             trends       \in {trend_analysis(table)},
             regime       \in {regime_change_detection(table)},
             volatility   \in {volatility_clustering(table)}} : TRUE


-----------------------------------------------------------------------------
(* An analyzer object over a loaded history.  PokerTracker builds a        *)
(* PokerAnalytics or an AlphaDecayAnalyzer from its session list and the    *)
(* display code calls the analyzer's methods; a method exists on the       *)
(* analyzer of its own class only.                                         *)

\* the arguments of monte_carlo_simulation that are followed
SimulationCounts == {1, 2}

SessionsAhead == {2}

\* the variates the generator may deliver in one behaviour
MaxDraws == 4

Init ==
    /\ sessions \in Histories
    /\ analyzer \in {"PokerAnalytics", "AlphaDecayAnalyzer"}
    /\ df = IF analyzer = "PokerAnalytics"
            THEN create_dataframe(sessions) ELSE alpha_create_dataframe(sessions)
    /\ out = [op |-> "none", args |-> <<>>, result |-> EmptyDict]
    /\ rng_state = 0
    /\ training_sessions = <<>>
    /\ users = EmptyDict

\* a method of class cls that reads self.df and returns result
Call(cls, op, result) ==
    /\ analyzer = cls
    /\ out' = [op |-> op, args |-> <<>>, result |-> result]
    /\ UNCHANGED <<sessions, analyzer, df, rng_state, training_sessions, users>>

BasicStats == Call("PokerAnalytics", "basic_stats", basic_stats(df))

RiskMetrics == Call("PokerAnalytics", "risk_metrics", risk_metrics(df))

StreakAnalysis == Call("PokerAnalytics", "streak_analysis", streak_analysis(df))

PerformanceByPeriod ==
    /\ analyzer = "PokerAnalytics"
    /\ out' = [op |-> "performance_by_period", args |-> <<>>,
               result |-> performance_by_period(df)]
    /\ df' = DfAfterPeriods(df)
    /\ UNCHANGED <<sessions, analyzer, rng_state, training_sessions, users>>

KellyCriterion == Call("PokerAnalytics", "kelly_criterion", kelly_criterion(df))

\* the variates a run draws from the global generator
Draws(table, num_simulations, sessions_ahead) ==
    IF Len(table) = 0 THEN 0 ELSE num_simulations * sessions_ahead

MonteCarloSimulation ==
    /\ analyzer = "PokerAnalytics"
    /\ \E num_simulations \in SimulationCounts, sessions_ahead \in SessionsAhead :
          /\ rng_state + Draws(df, num_simulations, sessions_ahead) <= MaxDraws
          /\ out' = [op     |-> "monte_carlo_simulation",
                     args   |-> <<num_simulations, sessions_ahead>>,
                     result |-> monte_carlo_simulation(df, num_simulations,
                                                       sessions_ahead, rng_state)]
          /\ rng_state' = rng_state + Draws(df, num_simulations, sessions_ahead)
    /\ UNCHANGED <<sessions, analyzer, df, training_sessions, users>>

RollingPerformanceAnalysis ==
    Call("AlphaDecayAnalyzer", "rolling_performance_analysis",
         rolling_performance_analysis(df))

TrendAnalysis == Call("AlphaDecayAnalyzer", "trend_analysis", trend_analysis(df))

RegimeChangeDetection ==
    Call("AlphaDecayAnalyzer", "regime_change_detection", regime_change_detection(df))

VolatilityClustering ==
    Call("AlphaDecayAnalyzer", "volatility_clustering", volatility_clustering(df))

AlphaDecayScore == Call("AlphaDecayAnalyzer", "alpha_decay_score", alpha_decay_score(df))

Next ==
    \/ BasicStats
    \/ RiskMetrics
    \/ StreakAnalysis
    \/ PerformanceByPeriod
    \/ KellyCriterion
    \/ MonteCarloSimulation
    \/ RollingPerformanceAnalysis
    \/ TrendAnalysis
    \/ RegimeChangeDetection
    \/ VolatilityClustering
    \/ AlphaDecayScore

Spec == Init /\ [][Next]_vars

-----------------------------------------------------------------------------
(* The tracker that records the sessions.  PokerTracker exists in two      *)
(* variants, poker_tracker.py and new_deposit.py; the second stores the    *)
(* bankroll carried over as the buy-in of a session entered with buy-in 0. *)

MaxSessions == 2

\* the amounts entered for a session
BuyIns == {0, 40}

CashOuts == {0, 30, 50}

Fees == {0, 5}

TrackerVariants == {"poker_tracker.PokerTracker", "new_deposit.PokerTracker"}

\* the session files found at start: none, or one session in the format
\* of poker_tracker.py
StoredSessions == {<<>>, <<MakeSession(1, 10)>>}

\* datetime.datetime.now().isoformat() when the next session is added
Now(ss) == MakeSession(Len(ss) + 1, 0).date

\* new_deposit.py: PokerTracker.get_current_bankroll
get_current_bankroll(ss) == IF Len(ss) = 0 THEN 0 ELSE ss[Len(ss)].cash_out

\* the record add_session of poker_tracker.py appends
TrackerSession(ss, buy_in, cash_out, fees) ==
    [date        |-> Now(ss),
     buy_in      |-> buy_in,
     cash_out    |-> cash_out,
     fees        |-> fees,
     profit_loss |-> cash_out - buy_in - fees]

\* the record of new_deposit.py with the result counted from the buy-in
\* as entered
NewDepositSessionAsEntered(ss, buy_in, cash_out, fees) ==
    LET current_bankroll == get_current_bankroll(ss)
        actual_buy_in    == IF buy_in = 0 THEN current_bankroll ELSE buy_in
        new_deposit      == IF buy_in = 0 THEN 0 ELSE buy_in
    IN  [date        |-> Now(ss),
         buy_in      |-> actual_buy_in,
         new_deposit |-> new_deposit,
         cash_out    |-> cash_out,
         fees        |-> fees,
         profit_loss |-> cash_out - buy_in - fees]

\* the record add_session of new_deposit.py appends
NewDepositSession(ss, buy_in, cash_out, fees) ==
    LET current_bankroll == get_current_bankroll(ss)
        actual_buy_in    == IF buy_in = 0 THEN current_bankroll ELSE buy_in
        new_deposit      == IF buy_in = 0 THEN 0 ELSE buy_in
    IN  [date        |-> Now(ss),
         buy_in      |-> actual_buy_in,
         new_deposit |-> new_deposit,
         cash_out    |-> cash_out,
         fees        |-> fees,
         profit_loss |-> cash_out - actual_buy_in - fees]

\* new_deposit.py: PokerTracker.get_stats
get_stats(ss) ==
    IF Len(ss) = 0
    THEN [total_sessions    |-> 0,
          total_profit_loss |-> 0,
          total_fees        |-> 0,
          total_deposits    |-> 0,
          total_cash_outs   |-> 0,
          current_bankroll  |-> 0,
          average_session   |-> Fin(0)]
    ELSE LET total_deposits    == Sum(Tab(1, Len(ss), LAMBDA i : GetNewDeposit(ss[i])))
             total_fees        == Sum(Column(ss, "fees"))
             current_bankroll  == get_current_bankroll(ss)
             total_profit_loss == current_bankroll - total_deposits - total_fees
         IN  [total_sessions    |-> Len(ss),
              total_deposits    |-> total_deposits,
              total_cash_outs   |-> current_bankroll,
              total_fees        |-> total_fees,
              total_profit_loss |-> total_profit_loss,
              current_bankroll  |-> current_bankroll,
              average_session   |-> Fin(QMulDiv(Sum(Column(ss, "profit_loss")), SCALE, Len(ss)))]

TrackerInit ==
    /\ sessions \in StoredSessions
    /\ analyzer \in TrackerVariants
    /\ df = <<>>
    /\ out = [op |-> "none", args |-> <<>>, result |-> EmptyDict]
    /\ rng_state = 0
    /\ training_sessions = <<>>
    /\ users = EmptyDict

\* poker_tracker.py: PokerTracker.add_session, save_sessions included
AddSession ==
    /\ analyzer = "poker_tracker.PokerTracker"
    /\ Len(sessions) < MaxSessions
    /\ \E buy_in \in BuyIns, cash_out \in CashOuts, fees \in Fees :
           /\ sessions' = Append(sessions, TrackerSession(sessions, buy_in, cash_out, fees))
           /\ out' = [op |-> "add_session", args |-> <<buy_in, cash_out, fees>>,
                      result |-> EmptyDict]
    /\ UNCHANGED <<analyzer, df, rng_state, training_sessions, users>>

\* new_deposit.py: PokerTracker.add_session, save_sessions included
AddSessionNewDeposit ==
    /\ analyzer = "new_deposit.PokerTracker"
    /\ Len(sessions) < MaxSessions
    /\ \E buy_in \in BuyIns, cash_out \in CashOuts, fees \in Fees :
           /\ sessions' = Append(sessions, NewDepositSession(sessions, buy_in, cash_out, fees))
           /\ out' = [op |-> "add_session", args |-> <<buy_in, cash_out, fees>>,
                      result |-> EmptyDict]
    /\ UNCHANGED <<analyzer, df, rng_state, training_sessions, users>>

\* new_deposit.py: PokerTracker.get_stats called on the tracker
GetStats ==
    /\ analyzer = "new_deposit.PokerTracker"
    /\ out' = [op |-> "get_stats", args |-> <<>>, result |-> get_stats(sessions)]
    /\ UNCHANGED <<sessions, analyzer, df, rng_state, training_sessions, users>>

TrackerNext ==
    \/ AddSession
    \/ AddSessionNewDeposit
    \/ GetStats

TrackerSpec == TrackerInit /\ [][TrackerNext]_vars

-----------------------------------------------------------------------------
(* Poker_Trainer/core/session_manager.py: SessionManager over the tables   *)
(* training_sessions and users of core/user_manager.py.  A session id is   *)
(* the position of its row: uuid4 ids are distinct.  Each method runs in   *)
(* one transaction.                                                        *)

\* the calls followed in one behaviour
MaxCalls == 6

\* the users created by UserManager.create_user
UserIds == {"u1", "u2"}

\* the streak main_app.py reports with an answer: one more after a
\* correct answer, 0 after a wrong one
StreakAfter(row, is_correct) == IF is_correct THEN row.current_streak + 1 ELSE 0

\* training_config.SCORING
SCORING == [correct_answer |-> 10, streak_bonus |-> 5, max_streak_bonus |-> 50]

\* a row of training_sessions as INSERT creates it, defaults included
NewTrainingSession(session_id, user_id) ==
    [id              |-> session_id,
     user_id         |-> user_id,
     training_mode   |-> "RFI",
     position        |-> "BTN",
     stack_depth     |-> 100,
     end_time        |-> "NULL",
     total_hands     |-> 0,
     correct_answers |-> 0,
     current_streak  |-> 0,
     best_streak     |-> 0,
     final_score     |-> 0,
     is_active       |-> 1]

\* create_session without its first UPDATE
KeepActive(rows, user_id) == rows

\* UPDATE training_sessions SET is_active = 0, end_time = CURRENT_TIMESTAMP
\* WHERE user_id = ? AND is_active = 1
EndActive(rows, user_id) ==
    [i \in 1..Len(rows) |->
        IF rows[i].user_id = user_id /\ rows[i].is_active = 1
        THEN [rows[i] EXCEPT !.is_active = 0, !.end_time = "CURRENT_TIMESTAMP"]
        ELSE rows[i]]

\* the UPDATE of update_session_stats on one row
UpdatedStats(row, is_correct, streak) ==
    LET score_increase == IF is_correct THEN SCORING.correct_answer ELSE 0
        product        == streak * SCORING.streak_bonus
        streak_bonus   == IF product < SCORING.max_streak_bonus
                          THEN product ELSE SCORING.max_streak_bonus
    IN  [row EXCEPT !.total_hands     = @ + 1,
                    !.correct_answers = @ + (IF is_correct THEN 1 ELSE 0),
                    !.current_streak  = streak,
                    !.best_streak     = IF streak > @ THEN streak ELSE @,
                    !.final_score     = @ + score_increase + streak_bonus]

\* the UPDATE of end_session on the row of the session's owner in users
UpdatedTotals(user, row) ==
    [user EXCEPT !.total_sessions = @ + 1,
                 !.total_hands    = @ + row.total_hands,
                 !.total_correct  = @ + row.correct_answers,
                 !.best_streak    = IF row.best_streak > @ THEN row.best_streak ELSE @]

\* the calls made so far: each create_session adds a row, each
\* update_session_stats a hand, each end_session one to a user's sessions
CallsMade ==
    Len(training_sessions)
    + Sum([i \in 1..Len(training_sessions) |-> training_sessions[i].total_hands])
    + Sum([i \in 1..2 |-> users[IF i = 1 THEN "u1" ELSE "u2"].total_sessions])

TrainerInit ==
    /\ training_sessions = <<>>
    /\ users = [u \in UserIds |-> [total_sessions |-> 0, total_hands |-> 0,
                                    total_correct |-> 0, best_streak |-> 0]]
    /\ sessions = <<>>
    /\ analyzer = "SessionManager"
    /\ df = <<>>
    /\ out = [op |-> "none", args |-> <<>>, result |-> EmptyDict]
    /\ rng_state = 0

\* SessionManager.create_session
CreateSession ==
    /\ CallsMade < MaxCalls
    /\ \E user_id \in UserIds :
           LET session_id == Len(training_sessions) + 1
           IN  /\ training_sessions' =
                      Append(EndActive(training_sessions, user_id),
                             NewTrainingSession(session_id, user_id))
               /\ out' = [op |-> "create_session", args |-> <<user_id>>,
                          result |-> NewTrainingSession(session_id, user_id)]
    /\ UNCHANGED <<sessions, analyzer, df, rng_state, users>>

\* SessionManager.update_session_stats
UpdateSessionStats ==
    /\ CallsMade < MaxCalls
    /\ \E session_id \in 1..Len(training_sessions), is_correct \in BOOLEAN :
           /\ training_sessions' =
                  [training_sessions EXCEPT ![session_id] =
                       UpdatedStats(@, is_correct, StreakAfter(@, is_correct))]
           /\ out' = [op |-> "update_session_stats",
                      args |-> <<session_id, is_correct,
                                 StreakAfter(training_sessions[session_id], is_correct)>>,
                      result |-> EmptyDict]
    /\ UNCHANGED <<sessions, analyzer, df, rng_state, users>>

\* SessionManager.end_session
EndSession ==
    /\ CallsMade < MaxCalls
    /\ \E session_id \in 1..Len(training_sessions) :
           LET row == training_sessions[session_id]
           IN  /\ training_sessions' =
                      [training_sessions EXCEPT ![session_id] =
                           [@ EXCEPT !.is_active = 0, !.end_time = "CURRENT_TIMESTAMP"]]
               /\ users' = [users EXCEPT ![row.user_id] = UpdatedTotals(@, row)]
               /\ out' = [op |-> "end_session", args |-> <<session_id>>,
                          result |-> EmptyDict]
    /\ UNCHANGED <<sessions, analyzer, df, rng_state>>

TrainerNext ==
    \/ CreateSession
    \/ UpdateSessionStats
    \/ EndSession

TrainerSpec == TrainerInit /\ [][TrainerNext]_vars

-----------------------------------------------------------------------------
(* Properties of the error contract *)

\* the last call was alpha_decay_score and it returned a score
Scored == out.op = "alpha_decay_score" /\ ~HasError(out.result)

\* C1: alpha_decay_score is all-or-nothing.  A dependency (rolling
\* performance, trend, regime, volatility) reports an error exactly when
\* there are fewer than 50 sessions; then the result is an error and holds
\* no score, level, recommendation or component field; with 50 sessions or
\* more the result holds the score and its fields.
AllOrNothing ==
    out.op = "alpha_decay_score" =>
        LET failing == \/ HasError(rolling_performance_analysis(df))
                       \/ HasError(trend_analysis(df))
                       \/ HasError(regime_change_detection(df))
                       \/ HasError(volatility_clustering(df))
        IN  /\ failing <=> Len(sessions) < 50
            /\ IF failing
               THEN DOMAIN out.result = {"error"}
               ELSE DOMAIN out.result = {"alpha_decay_score", "decay_level",
                                         "recommendation", "component_scores"}

\* 49 sessions: the trend, regime and volatility analyses succeed, the
\* score is refused
AllOrNothingWitness ==
    /\ out.op = "alpha_decay_score"
    /\ Len(sessions) = 49
    /\ HasError(out.result)
    /\ ~HasError(trend_analysis(df))
    /\ ~HasError(regime_change_detection(df))
    /\ ~HasError(volatility_clustering(df))

\* the operations of PokerAnalytics the error contract names
AnalyticsOps ==
    {"basic_stats", "risk_metrics", "streak_analysis", "monte_carlo_simulation",
     "kelly_criterion"}

AlphaOps ==
    {"rolling_performance_analysis", "trend_analysis", "regime_change_detection",
     "volatility_clustering", "alpha_decay_score"}

\* the fewest sessions an operation of PokerAnalytics works on
AnalyticsMinimum(op) == IF op = "risk_metrics" THEN 2 ELSE 1

\* the fewest sessions an operation of AlphaDecayAnalyzer works on
AlphaMinimum(op) ==
    CASE op = "rolling_performance_analysis" -> SeqMax(lookback_periods)
      [] op = "trend_analysis" -> 10
      [] op = "regime_change_detection" -> 20
      [] op = "volatility_clustering" -> 10
      [] op = "alpha_decay_score" -> SeqMax(lookback_periods)

\* the last call was made with fewer sessions than the operation works on
TooShort ==
    \/ out.op \in AnalyticsOps /\ Len(sessions) < AnalyticsMinimum(out.op)
    \/ out.op \in AlphaOps /\ Len(sessions) < AlphaMinimum(out.op)

FirstError(table) ==
    IF HasError(rolling_performance_analysis(table)) THEN rolling_performance_analysis(table)
    ELSE IF HasError(trend_analysis(table)) THEN trend_analysis(table)
    ELSE IF HasError(regime_change_detection(table)) THEN regime_change_detection(table)
    ELSE IF HasError(volatility_clustering(table)) THEN volatility_clustering(table)
    ELSE EmptyDict

\* C3 as stated: the error alpha_decay_score returns is the error of the
\* first failing dependency, message and minimum included.
FirstErrorVerbatim ==
    out.op = "alpha_decay_score" /\ HasError(out.result) => out.result = FirstError(df)

-----------------------------------------------------------------------------
(* Properties of the score *)

\* C4: the level is decided by the score alone on the ladder 70, 50, 30,
\* 15, each level on exactly its interval, and the recommendation is the
\* one of the level.
ClassificationLadder ==
    Scored =>
        LET score == out.result.alpha_decay_score
            level == out.result.decay_level
            recommendation == out.result.recommendation
        IN  /\ level = "SEVERE ALPHA DECAY" <=> FGe(score, FInt(70))
            /\ level = "MODERATE ALPHA DECAY" <=> FGe(score, FInt(50)) /\ FLt(score, FInt(70))
            /\ level = "MILD ALPHA DECAY" <=> FGe(score, FInt(30)) /\ FLt(score, FInt(50))
            /\ level = "SLIGHT DETERIORATION" <=> FGe(score, FInt(15)) /\ FLt(score, FInt(30))
            /\ level = "STABLE/IMPROVING" <=> FLt(score, FInt(15))
            /\ recommendation =
                   CASE level = "SEVERE ALPHA DECAY" ->
                            "STOP PLAYING - Your edge has significantly deteriorated"
                     [] level = "MODERATE ALPHA DECAY" ->
                            "REDUCE STAKES - Review strategy and take a break"
                     [] level = "MILD ALPHA DECAY" ->
                            "CAUTION - Monitor closely and consider strategy review"
                     [] level = "SLIGHT DETERIORATION" ->
                            "WATCH - Some performance decline detected"
                     [] level = "STABLE/IMPROVING" ->
                            "CONTINUE - Performance remains strong"

\* a score of exactly 70 is classified severe
ClassificationWitness ==
    /\ Scored
    /\ out.result.alpha_decay_score = FInt(70)
    /\ out.result.decay_level = "SEVERE ALPHA DECAY"

\* the 20-session entry of the rolling performance analysis
Rolling20(table) == rolling_performance_analysis(table)["20_session"]

\* what a deterioration d is charged, up to hi points, when it is negative
Charge(hi, d) == IF FLt(d, Fin(0)) THEN PyMin(FInt(hi), FNeg(d)) ELSE Fin(0)

Half(d) == FDiv(d, FInt(2))

\* the points of the trend, regime and volatility factors
OtherFactors(table) ==
    FAdd(FAdd(TrendComponent(trend_analysis(table)),
              RegimeComponent(regime_change_detection(table))),
         VolatilityComponent(volatility_clustering(table)))

\* C5 as stated: the performance factor adds its three terms only when the
\* 20-session P/L deterioration is negative, and nothing otherwise.
PerformanceOnlyWhenPlNegative ==
    Scored =>
        LET r == Rolling20(df)
            performance ==
                IF FLt(r.pl_deterioration, Fin(0))
                THEN FAdd(FAdd(Charge(40, r.pl_deterioration),
                               Charge(20, Half(r.sharpe_deterioration))),
                          Charge(20, r.winrate_deterioration))
                ELSE Fin(0)
        IN  out.result.alpha_decay_score = FAdd(performance, OtherFactors(df))

\* C5, amended: each of the three terms of the performance factor is added
\* when its own 20-session deterioration is negative: up to 40 points for
\* P/L, up to 20 for half the Sharpe deterioration, up to 20 for the win
\* rate; a P/L deterioration >= 0 removes the P/L term only.
PerformanceTermsSeparately ==
    Scored =>
        LET r == Rolling20(df)
            performance ==
                FAdd(FAdd(Charge(40, r.pl_deterioration),
                          Charge(20, Half(r.sharpe_deterioration))),
                     Charge(20, r.winrate_deterioration))
        IN  out.result.alpha_decay_score = FAdd(performance, OtherFactors(df))

\* a score that charges a win rate deterioration although the P/L did not
\* deteriorate
PerformanceTermsWitness ==
    /\ Scored
    /\ FGe(Rolling20(df).pl_deterioration, Fin(0))
    /\ FLt(Rolling20(df).winrate_deterioration, Fin(0))
    /\ FGe(out.result.alpha_decay_score, FInt(20))

Flat ==
    /\ Scored
    /\ LET r == Rolling20(df)
       IN  /\ FEq(r.current_avg_pl, r.historical_avg_pl)
           /\ FEq(r.current_sharpe, r.historical_sharpe)
           /\ FEq(r.current_winrate, r.historical_winrate)
           /\ r.pl_deterioration = Fin(0)
           /\ r.sharpe_deterioration = Fin(0)
           /\ r.winrate_deterioration = Fin(0)
    /\ regime_change_detection(df).current_regime = "Good Performance"
    /\ volatility_clustering(df).volatility_regime = "Normal"

-----------------------------------------------------------------------------
(* Properties of the analyzer as an object *)

\* the table a fresh analyzer of the same class derives from the sessions
FreshTable ==
    IF analyzer = "PokerAnalytics"
    THEN create_dataframe(sessions) ELSE alpha_create_dataframe(sessions)

\* what an operation without random input returns on a table
Apply(op, table) ==
    CASE op = "basic_stats" -> basic_stats(table)
      [] op = "risk_metrics" -> risk_metrics(table)
      [] op = "streak_analysis" -> streak_analysis(table)
      [] op = "performance_by_period" -> performance_by_period(table)
      [] op = "kelly_criterion" -> kelly_criterion(table)
      [] op = "rolling_performance_analysis" -> rolling_performance_analysis(table)
      [] op = "trend_analysis" -> trend_analysis(table)
      [] op = "regime_change_detection" -> regime_change_detection(table)
      [] op = "volatility_clustering" -> volatility_clustering(table)
      [] op = "alpha_decay_score" -> alpha_decay_score(table)

DeterministicOps ==
    {"basic_stats", "risk_metrics", "streak_analysis", "performance_by_period",
     "kelly_criterion", "rolling_performance_analysis", "trend_analysis",
     "regime_change_detection", "volatility_clustering", "alpha_decay_score"}

SimulationRepeats ==
    [][(/\ out.op = "monte_carlo_simulation"
        /\ out'.op = "monte_carlo_simulation"
        /\ out'.args = out.args) => out'.result = out.result]_vars

\* by how much the fixed-point Kelly fraction, six truncated operations,
\* may differ from the exact one: 0.008
KellyTolerance == SCALE \div 125

\* the results of the sessions, in order
ProfitLoss == Column(sessions, "profit_loss")

\* C10: kelly_criterion returns 0 without a winning or without a losing
\* session; otherwise max(0, (b*p - q)/b) with b = mean(wins)/|mean(losses)|,
\* p = wins/sessions, q = 1 - p, here as the fraction
\* (W*w*l - (n-w)*w*L) / (n*W*l) of the counts n, w, l and the sums W, L of
\* the sessions, wins and losses, to within KellyTolerance; it is
\* never negative, and 0.25 for the sessions +10, +10, -5, -5.
KellyFormula ==
    out.op = "kelly_criterion" =>
        LET n == Len(ProfitLoss)
            wins   == Filter(ProfitLoss, IsWin)
            losses == Filter(ProfitLoss, IsLoss)
            w == Len(wins)
            l == Len(losses)
            W == Sum(wins)
            L == -Sum(losses)
            exact == QMulDiv(W * w * l - (n - w) * w * L, SCALE, n * W * l)
            floor == IF exact < 0 THEN 0 ELSE exact
        IN  /\ IsFin(out.result) /\ out.result.v >= 0
            /\ IF w = 0 \/ l = 0 THEN out.result = Fin(0)
               ELSE Abs(out.result.v - floor) <= KellyTolerance
            /\ ProfitLoss = <<10, 10, -5, -5>> => out.result = Dec(1, 4)

\* the sessions +10, +10, -5, -5 give 0.25
KellyWitness ==
    /\ out.op = "kelly_criterion"
    /\ ProfitLoss = <<10, 10, -5, -5>>
    /\ out.result = Dec(1, 4)

-----------------------------------------------------------------------------
(* Properties of the statistics of PokerAnalytics *)

\* C11 as stated: on a non-empty history the profit factor is +infinity
\* exactly when there is a win and the losses total zero, 0 when there is
\* no win, and otherwise sum(wins)/|sum(losses)|.
ProfitFactorZeroWithoutWins ==
    out.op = "basic_stats" /\ Len(sessions) > 0 =>
        LET wins   == Filter(ProfitLoss, IsWin)
            losses == Filter(ProfitLoss, IsLoss)
        IN  out.result.profit_factor =
                IF Len(wins) > 0 /\ Sum(losses) = 0 THEN Inf(1)
                ELSE IF Len(wins) = 0 THEN Fin(0)
                ELSE FAbs(FDiv(FInt(Sum(wins)), FInt(Sum(losses))))

\* C12: on two sessions or more, max_drawdown <= current_drawdown <= 0,
\* where the drawdown after session i is the cumulative P/L after it minus
\* the largest cumulative P/L up to it; max_drawdown is the least of these
\* and current_drawdown the last; max_drawdown is 0 exactly when the
\* cumulative P/L never falls below an earlier value.
DrawdownBounds ==
    out.op = "risk_metrics" /\ Len(sessions) >= 2 =>
        LET pl  == ProfitLoss
            n   == Len(pl)
            cum == Tab(1, n, LAMBDA i : SumTo(pl, i))
            dd  == Tab(1, n, LAMBDA i : cum[i] - MaxRange(cum, 1, i))
            max_drawdown     == out.result.max_drawdown
            current_drawdown == out.result.current_drawdown
        IN  /\ max_drawdown <= current_drawdown
            /\ current_drawdown <= 0
            /\ current_drawdown = dd[n]
            /\ \A i \in 1..n : max_drawdown <= dd[i]
            /\ \E i \in 1..n : max_drawdown = dd[i]
            /\ max_drawdown = 0 <=>
                   \A i \in 1..n : \A j \in i..n : cum[j] >= cum[i]

\* a history that has recovered part of its deepest drawdown
DrawdownWitness ==
    /\ out.op = "risk_metrics"
    /\ Len(sessions) >= 2
    /\ out.result.max_drawdown < out.result.current_drawdown
    /\ out.result.current_drawdown < 0

\* C13: max_win_streak is the length of the longest run of consecutive
\* sessions with profit_loss > 0 and max_loss_streak that of the longest
\* run with profit_loss < 0, 0 without such a session; a session of
\* exactly 0 is in neither kind of run; +1,+1,-1,+1,+1,+1,-1 gives 3 and 1.
StreakLengths ==
    out.op = "streak_analysis" /\ Len(sessions) > 0 =>
        LET pl == ProfitLoss
            n  == Len(pl)
            WinRun(i, k)  == \A m \in i..(i + k - 1) : pl[m] > 0
            LossRun(i, k) == \A m \in i..(i + k - 1) : pl[m] < 0
            Longest(len, Run(_, _)) ==
                /\ len \in 0..n
                /\ len = 0 \/ \E i \in 1..(n - len + 1) : Run(i, len)
                /\ ~ \E i \in 1..(n - len) : Run(i, len + 1)
        IN  /\ Longest(out.result.max_win_streak, WinRun)
            /\ Longest(out.result.max_loss_streak, LossRun)
            /\ pl = <<1, 1, -1, 1, 1, 1, -1>> =>
                   out.result.max_win_streak = 3 /\ out.result.max_loss_streak = 1

\* the streaks of +1,+1,-1,+1,+1,+1,-1
StreakExample ==
    /\ out.op = "streak_analysis"
    /\ ProfitLoss = <<1, 1, -1, 1, 1, 1, -1>>
    /\ out.result.max_win_streak = 3
    /\ out.result.max_loss_streak = 1

\* C14: the current streak is counted backward from the last session: its
\* length is that of the longest run of sessions of the last session's
\* sign that ends at the last session, it is winning when the last
\* session is positive and losing when it is negative, it has length 0
\* when the last session is exactly 0, and it is never longer than
\* max_win_streak or max_loss_streak; +1,+1,-1,+1,+1,+1,-1 gives a losing
\* streak of 1 session.
CurrentStreakBackward ==
    out.op = "streak_analysis" /\ Len(sessions) > 0 =>
        LET pl     == ProfitLoss
            n      == Len(pl)
            streak == out.result.current_streak[1]
            type   == out.result.current_streak[2]
            SameSign(i) == \/ pl[n] > 0 /\ pl[i] > 0
                           \/ pl[n] < 0 /\ pl[i] < 0
        IN  /\ streak \in 0..n
            /\ \A i \in (n - streak + 1)..n : SameSign(i)
            /\ streak < n => ~SameSign(n - streak)
            /\ pl[n] > 0 => type = "winning"
            /\ pl[n] < 0 => type = "losing"
            /\ pl[n] = 0 => streak = 0
            /\ type = "winning" => streak <= out.result.max_win_streak
            /\ type = "losing" => streak <= out.result.max_loss_streak
            /\ pl = <<1, 1, -1, 1, 1, 1, -1>> => streak = 1 /\ type = "losing"

\* a winning streak of two sessions after a longer one earlier
CurrentStreakWitness ==
    /\ out.op = "streak_analysis"
    /\ Len(sessions) > 0
    /\ out.result.current_streak = <<2, "winning">>
    /\ out.result.max_win_streak > 2

-----------------------------------------------------------------------------
(* Properties of the analyses of AlphaDecayAnalyzer *)

\* C15: rolling_performance_analysis reports insufficient data exactly
\* when there are fewer sessions than its longest window, 50, needs; with
\* 50 sessions or more, 51 among them, it returns an entry for every one
\* of the windows 10, 20 and 50.
RollingNeedsLongestWindow ==
    out.op = "rolling_performance_analysis" =>
        /\ HasError(out.result) <=> Len(sessions) < SeqMax(<<10, 20, 50>>)
        /\ HasError(out.result) =>
               out.result = [error |-> "Need at least 50 sessions"]
        /\ ~HasError(out.result) =>
               DOMAIN out.result = {"10_session", "20_session", "50_session"}

\* 51 sessions give an entry for each window
RollingWitness ==
    /\ out.op = "rolling_performance_analysis"
    /\ Len(sessions) = 51
    /\ DOMAIN out.result = {"10_session", "20_session", "50_session"}

\* C16: trend_analysis returns an error below 10 sessions; otherwise the
\* direction of each of profit_loss, cumulative_pl and roi is Improving
\* exactly when the least-squares slope of the metric on the session
\* number is positive (the slope has the sign of n*Sum(i*y) - Sum(i)*Sum(y),
\* which a common factor of the y does not change)
\* and Deteriorating otherwise; a constant series has slope 0 and is
\* Deteriorating, a series rising by a fixed step is Improving.
TrendDirectionBySlope ==
    out.op = "trend_analysis" =>
        IF Len(sessions) < 10
        THEN out.result = [error |-> "Need at least 10 sessions for trend analysis"]
        ELSE LET n   == Len(sessions)
                 pl  == ProfitLoss
                 cum == Tab(1, n, LAMBDA i : SumTo(pl, i))
                 thousandths == Tab(1, n, LAMBDA i : Roi(sessions[i]).v)
                 g   == GcdRange(thousandths, 1, n)
                 roi == Tab(1, n, LAMBDA i : IF g = 0 THEN 0 ELSE thousandths[i] \div g)
                 Sxy(y) == n * Sum(Tab(1, n, LAMBDA i : i * y[i])) - ((n * (n + 1)) \div 2) * Sum(y)
                 Direction(y) == IF Sxy(y) > 0 THEN "Improving" ELSE "Deteriorating"
             IN  /\ DOMAIN out.result = {"profit_loss", "cumulative_pl", "roi"}
                 /\ out.result.profit_loss.trend_direction = Direction(pl)
                 /\ out.result.cumulative_pl.trend_direction = Direction(cum)
                 /\ out.result.roi.trend_direction = Direction(roi)
                 /\ \A metric \in DOMAIN out.result :
                        out.result[metric].trend_direction = "Improving"
                            <=> FGt(out.result[metric].slope, Fin(0))
                 /\ (\A i \in 1..n : pl[i] = pl[1]) =>
                        /\ out.result.profit_loss.slope = Fin(0)
                        /\ out.result.profit_loss.trend_direction = "Deteriorating"
                 /\ (pl[2] > pl[1] /\ \A i \in 2..n : pl[i] - pl[i - 1] = pl[2] - pl[1]) =>
                        out.result.profit_loss.trend_direction = "Improving"

\* ten sessions of the same result: slope 0, Deteriorating
TrendFlatWitness ==
    /\ out.op = "trend_analysis"
    /\ Len(sessions) >= 10
    /\ \A i \in 1..Len(sessions) : sessions[i].profit_loss = sessions[1].profit_loss
    /\ out.result.profit_loss.slope = Fin(0)
    /\ out.result.profit_loss.trend_direction = "Deteriorating"

\* C17: with 20 sessions or more the regime is Good Performance exactly
\* when the mean of the last 5 results is greater than the mean of the
\* last 15 (three times the sum of the last 5 exceeds the sum of the last
\* 15), else Poor Performance, equal means included; Neutral is never
\* returned; with fewer than 20 sessions the result is an error.
RegimeByMovingAverages ==
    out.op = "regime_change_detection" =>
        IF Len(sessions) < 20
        THEN out.result = [error |-> "Need at least 20 sessions for regime detection"]
        ELSE LET pl    == ProfitLoss
                 n     == Len(pl)
                 short == SumRange(pl, n - 4, n)
                 long  == SumRange(pl, n - 14, n)
             IN  /\ out.result.current_regime =
                        IF 3 * short > long THEN "Good Performance" ELSE "Poor Performance"
                 /\ out.result.current_regime # "Neutral"

\* equal moving averages are reported as poor performance
RegimeEqualWitness ==
    /\ out.op = "regime_change_detection"
    /\ Len(sessions) >= 20
    /\ FEq(out.result.short_ma_current, out.result.long_ma_current)
    /\ out.result.current_regime = "Poor Performance"

-----------------------------------------------------------------------------
(* Properties of the session table *)

\* C18: the table has one row per session, in the order of the input: row
\* i carries the date, buy-in and result of session i, its session_number
\* is i and its cumulative_pl is the sum of the first i results, so the
\* last cumulative_pl is the sum of all results; PokerAnalytics and
\* AlphaDecayAnalyzer derive the same roi, cumulative_pl and
\* session_number from the same sessions.
TableFollowsInput ==
    LET n  == Len(sessions)
        pl == ProfitLoss
        a  == create_dataframe(sessions)
        b  == alpha_create_dataframe(sessions)
    IN  /\ Len(df) = n
        /\ \A i \in 1..n :
               /\ df[i].date = sessions[i].date
               /\ df[i].buy_in = sessions[i].buy_in
               /\ df[i].profit_loss = sessions[i].profit_loss
               /\ df[i].session_number = i
               /\ df[i].cumulative_pl = SumRange(pl, 1, i)
        /\ n > 0 => df[n].cumulative_pl = Sum(pl)
        /\ Len(a) = n /\ Len(b) = n
        /\ \A i \in 1..n :
               /\ a[i].roi = b[i].roi
               /\ a[i].cumulative_pl = b[i].cumulative_pl
               /\ a[i].session_number = b[i].session_number

\* a table of three rows or more whose results differ
TableWitness ==
    /\ Len(df) >= 3
    /\ df[1].profit_loss # df[Len(df)].profit_loss
    /\ df[Len(df)].session_number = Len(sessions)
    /\ df[Len(df)].cumulative_pl = Sum(ProfitLoss)
    /\ df[Len(df)].cumulative_pl # df[Len(df)].profit_loss

\* C25 as stated: with at least one session basic_stats reports the
\* population variance of profit_loss, the sum of the squared deviations
\* from the mean divided by the number n of sessions, which is
\* (n * Sum(x^2) - Sum(x)^2) / n^2, and its square root as std_dev; a single
\* session has variance 0 and std_dev 0.
PopulationDeviation ==
    out.op = "basic_stats" /\ Len(sessions) >= 1 =>
        LET n == Len(ProfitLoss)
            m == n * Sum(Squares(ProfitLoss)) - Sum(ProfitLoss) * Sum(ProfitLoss)
        IN  /\ out.result # EmptyDict
            /\ out.result.variance = Fin(QMulDiv(m, SCALE, n * n))
            /\ IsFin(out.result.std_dev)
            /\ out.result.std_dev.v * out.result.std_dev.v <= MulDiv(m, SCALE * SCALE, n * n)
            /\ n = 1 => out.result.variance = Fin(0) /\ out.result.std_dev = Fin(0)

\* a single session has no sample deviation
SingleSessionDeviation ==
    /\ out.op = "basic_stats"
    /\ Len(sessions) = 1
    /\ IsNaN(out.result.std_dev)
    /\ IsNaN(out.result.variance)

\* the fraction of winning sessions, 0 without sessions
WinFraction ==
    IF Len(ProfitLoss) = 0 THEN Fin(0)
    ELSE Fin(QMulDiv(Len(Filter(ProfitLoss, IsWin)), SCALE, Len(ProfitLoss)))

\* C27 as stated: kelly_criterion returns r with 0 <= r < 1, at most the
\* fraction of winning sessions, and without a session of exactly 0,
\* r > 0 exactly when the total profit_loss is strictly positive.
KellySignByTotal ==
    out.op = "kelly_criterion" =>
        /\ FGe(out.result, Fin(0))
        /\ FLt(out.result, FInt(1))
        /\ FLe(out.result, WinFraction)
        /\ (\A i \in 1..Len(ProfitLoss) : ProfitLoss[i] # 0) =>
               (FGt(out.result, Fin(0)) <=> Sum(ProfitLoss) > 0)

\* C27, amended: kelly_criterion returns r with 0 <= r < 1, at most the
\* fraction of winning sessions, and without a session of exactly 0,
\* r > 0 exactly when the total profit_loss is strictly positive and at
\* least one session is a loss.
KellySignWithLosses ==
    out.op = "kelly_criterion" =>
        /\ FGe(out.result, Fin(0))
        /\ FLt(out.result, FInt(1))
        /\ FLe(out.result, WinFraction)
        /\ (\A i \in 1..Len(ProfitLoss) : ProfitLoss[i] # 0) =>
               (FGt(out.result, Fin(0)) <=>
                    /\ Sum(ProfitLoss) > 0
                    /\ \E i \in 1..Len(ProfitLoss) : ProfitLoss[i] < 0)

\* wins outweigh the losses of a history without a session of 0
KellyPositiveWitness ==
    /\ out.op = "kelly_criterion"
    /\ \A i \in 1..Len(ProfitLoss) : ProfitLoss[i] # 0
    /\ \E i \in 1..Len(ProfitLoss) : ProfitLoss[i] < 0
    /\ Sum(ProfitLoss) > 0
    /\ FGt(out.result, Fin(0))
    /\ FLt(out.result, WinFraction)

-----------------------------------------------------------------------------
(* Properties of the rolling comparison *)

\* the rolling statistics of the window of w sessions ending at session i
WindowMean(pl, w, i) == Fin(QMulDiv(SumRange(pl, i - w + 1, i), SCALE, w))

WindowSharpe(pl, w, i) ==
    FDiv(WindowMean(pl, w, i),
         StdOf(w, SumRange(pl, i - w + 1, i), SumRange(Squares(pl), i - w + 1, i)))

WindowWinrate(pl, w, i) ==
    FMul(Fin(QMulDiv(Cardinality({j \in (i - w + 1)..i : pl[j] > 0}), SCALE, w)),
         FInt(100))

\* d is the percent deterioration of current c against the baseline h
IsDeterioration(d, c, h) ==
    /\ FEq(h, Fin(0)) => d = Fin(0)
    /\ FNe(h, Fin(0)) => d = FMul(FDiv(FSub(c, h), FAbs(h)), FInt(100))
    /\ IsFin(c) /\ IsFin(h) /\ h.v # 0 => (FLt(d, Fin(0)) <=> FLt(c, h))

\* What holds of the comparison of C20: for each window w of
\* rolling_performance_analysis the current values are the mean, Sharpe ratio and win rate of the last w sessions,
\* the historical values are the means of these statistics over the full
\* windows ending at sessions w .. n-w (undefined values skipped);
\* pl_deterioration and sharpe_deterioration are
\* (current - historical)/|historical| * 100, 0 for a historical value of 0,
\* and for a finite baseline other than 0 negative exactly when current is
\* below historical; winrate_deterioration is current - historical.
RollingCompares ==
    out.op = "rolling_performance_analysis" /\ ~HasError(out.result) =>
        \A w \in {10, 20, 50} :
            LET e  == out.result[PeriodKey(w)]
                pl == ProfitLoss
                n  == Len(ProfitLoss)
            IN  /\ e.current_avg_pl = WindowMean(pl, w, n)
                /\ e.current_sharpe = WindowSharpe(pl, w, n)
                /\ e.current_winrate = WindowWinrate(pl, w, n)
                /\ e.historical_avg_pl =
                       SeriesMean(Tab(w, n - w, LAMBDA i : WindowMean(pl, w, i)))
                /\ e.historical_sharpe =
                       SeriesMean(Tab(w, n - w, LAMBDA i : WindowSharpe(pl, w, i)))
                /\ e.historical_winrate =
                       SeriesMean(Tab(w, n - w, LAMBDA i : WindowWinrate(pl, w, i)))
                /\ IsDeterioration(e.pl_deterioration,
                                   e.current_avg_pl, e.historical_avg_pl)
                /\ IsDeterioration(e.sharpe_deterioration,
                                   e.current_sharpe, e.historical_sharpe)
                /\ e.winrate_deterioration =
                       FSub(e.current_winrate, e.historical_winrate)

\* C20 as stated: pl_deterioration and sharpe_deterioration are 0 when
\* historical is 0 and otherwise negative exactly when current is below
\* historical.
NegativeExactlyBelowBaseline ==
    out.op = "rolling_performance_analysis" /\ ~HasError(out.result) =>
        \A w \in {10, 20, 50} :
            LET e == out.result[PeriodKey(w)]
            IN  /\ IF FEq(e.historical_avg_pl, Fin(0))
                   THEN e.pl_deterioration = Fin(0)
                   ELSE FLt(e.pl_deterioration, Fin(0)) <=>
                            FLt(e.current_avg_pl, e.historical_avg_pl)
                /\ IF FEq(e.historical_sharpe, Fin(0))
                   THEN e.sharpe_deterioration = Fin(0)
                   ELSE FLt(e.sharpe_deterioration, Fin(0)) <=>
                            FLt(e.current_sharpe, e.historical_sharpe)

\* a window of equal results other than 0 makes the historical Sharpe
\* ratio infinite, and the deterioration against it is not a number
InfiniteBaseline ==
    /\ out.op = "rolling_performance_analysis"
    /\ ~HasError(out.result)
    /\ out.result["10_session"].historical_sharpe = Inf(1)
    /\ IsFin(out.result["10_session"].current_sharpe)
    /\ IsNaN(out.result["10_session"].sharpe_deterioration)

-----------------------------------------------------------------------------
(* Properties of the factors of the score *)

\* the multiplier of the bucket the p-value falls in
BucketMultiplier(p_value) ==
    IF p_value = "p < 0.01" THEN Dec(10, 10)
    ELSE IF p_value = "p < 0.05" THEN Dec(7, 10)
    ELSE IF p_value = "p < 0.10" THEN Dec(4, 10)
    ELSE Dec(1, 10)

\* the score with the points t in the place of the trend factor
ScoreWithTrend(table, t) ==
    FAdd(FAdd(FAdd(PerformanceComponent(rolling_performance_analysis(table)), t),
              RegimeComponent(regime_change_detection(table))),
         VolatilityComponent(volatility_clustering(table)))

\* C21: the trend factor of alpha_decay_score is |r| * 30 * m of the
\* regression of profit_loss, m being 1.0, 0.7, 0.4 or 0.1 by the bucket of
\* the p-value, when the profit_loss trend is Deteriorating and 0 when it
\* is not; it lies between 0 and 30, and the trends of cumulative_pl and
\* roi have no part in the score.
TrendFactor ==
    Scored =>
        LET t == trend_analysis(df).profit_loss
            trend == IF t.trend_direction = "Deteriorating"
                     THEN FMul(FMul(FAbs(linregress(Column(df, "session_number"),
                                                    Column(df, "profit_loss"), 1).r_value),
                                    FInt(30)),
                               BucketMultiplier(t.p_value))
                     ELSE Fin(0)
        IN  /\ out.result.alpha_decay_score = ScoreWithTrend(df, trend)
            /\ FGe(trend, Fin(0))
            /\ FLe(trend, FInt(30))

\* a deteriorating trend of profit_loss with 0.01 <= p < 0.05 is charged
\* seven tenths of |r| * 30
TrendFactorWitness ==
    /\ Scored
    /\ trend_analysis(df).profit_loss.trend_direction = "Deteriorating"
    /\ trend_analysis(df).profit_loss.p_value = "p < 0.05"
    /\ FGt(trend_analysis(df).profit_loss.trend_strength, Fin(0))
    /\ out.result.alpha_decay_score =
           ScoreWithTrend(df, FMul(FMul(trend_analysis(df).profit_loss.trend_strength,
                                        FInt(30)), Dec(7, 10)))

\* whether the 5-session average is above (1), below (-1) or equal to (0)
\* the 15-session average at the 0-based position i: the averages are
\* sums over 5 and over 15 sessions, compared as 3 * sum5 and sum15
ShortAgainstLong(pl, i) ==
    Sgn(3 * SumRange(pl, i - 3, i + 1) - SumRange(pl, i - 13, i + 1))

\* the crossovers the scan of the positions 15 .. n-1 has to record
ExpectedCrossovers(pl) ==
    {<<"bullish", i>> : i \in {j \in 15..(Len(pl) - 1) :
         ShortAgainstLong(pl, j - 1) <= 0 /\ ShortAgainstLong(pl, j) > 0}}
    \cup
    {<<"bearish", i>> : i \in {j \in 15..(Len(pl) - 1) :
         ShortAgainstLong(pl, j - 1) >= 0 /\ ShortAgainstLong(pl, j) < 0}}

\* C22: regime_change_detection records a bullish crossover at position i
\* exactly when short <= long at i-1 and short > long at i, a bearish one
\* exactly when short >= long at i-1 and short < long at i, for the
\* positions from the first pair with both averages populated (14, 15) to
\* the last session; total_regime_changes counts them and
\* recent_crossovers is the last min(3, total) of them in the order of
\* their positions.
CrossoversScanned ==
    out.op = "regime_change_detection" /\ ~HasError(out.result) =>
        LET expected == ExpectedCrossovers(ProfitLoss)
            recent   == out.result.recent_crossovers
            total    == out.result.total_regime_changes
        IN  /\ total = Cardinality(expected)
            /\ Len(recent) = IF total < 3 THEN total ELSE 3
            /\ \A k \in 1..Len(recent) : recent[k] \in expected
            /\ \A k \in 1..(Len(recent) - 1) : recent[k][2] < recent[k + 1][2]
            /\ \A c \in expected :
                   \/ \E k \in 1..Len(recent) : recent[k] = c
                   \/ c[2] < recent[1][2]

\* more than three crossovers, one of them out of an equality of the two
\* averages at the position before
CrossoversWitness ==
    /\ out.op = "regime_change_detection"
    /\ ~HasError(out.result)
    /\ out.result.total_regime_changes > 3
    /\ \E k \in 1..3 :
           ShortAgainstLong(ProfitLoss, out.result.recent_crossovers[k][2] - 1) = 0

\* the sample standard deviation of the 5 sessions ending at session i
WindowStd5(pl, i) ==
    StdOf(5, SumRange(pl, i - 4, i), SumRange(Squares(pl), i - 4, i))

\* the 5-session standard deviations volatility_clustering compares: the
\* one of the last 5 sessions and the mean of those ending at the sessions
\* 5 .. n-5
VolatilityCompared ==
    /\ out.result.current_volatility_5session = WindowStd5(ProfitLoss, Len(ProfitLoss))
    /\ out.result.historical_volatility_5session =
           SeriesMean(Tab(5, Len(ProfitLoss) - 5, LAMBDA i : WindowStd5(ProfitLoss, i)))

\* C23 as stated: with at least 10 sessions the regime is High Volatility
\* when current >= 1.5 * historical, Low Volatility when
\* current <= 0.7 * historical, Normal otherwise, the boundaries and the
\* case of both being 0 counted as stated.
VolatilityRegimeInclusive ==
    out.op = "volatility_clustering" /\ Len(sessions) >= 10 =>
        /\ VolatilityCompared
        /\ LET current    == out.result.current_volatility_5session
               historical == out.result.historical_volatility_5session
           IN  out.result.volatility_regime =
                   IF FGe(current, FMul(historical, Dec(15, 10))) THEN "High Volatility"
                   ELSE IF FLe(current, FMul(historical, Dec(7, 10))) THEN "Low Volatility"
                   ELSE "Normal"

\* What holds of the regime of C23: with at least 10 sessions it is High
\* Volatility when current > 1.5 * historical, Low Volatility when
\* current < 0.7 * historical, Normal otherwise; exactly 1.5 times, exactly
\* 0.7 times and both equal to 0 are Normal.
VolatilityRegimeStrict ==
    out.op = "volatility_clustering" /\ Len(sessions) >= 10 =>
        /\ VolatilityCompared
        /\ LET current    == out.result.current_volatility_5session
               historical == out.result.historical_volatility_5session
           IN  /\ out.result.volatility_regime =
                      IF FGt(current, FMul(historical, Dec(15, 10))) THEN "High Volatility"
                      ELSE IF FLt(current, FMul(historical, Dec(7, 10))) THEN "Low Volatility"
                      ELSE "Normal"
               /\ current = Fin(0) /\ historical = Fin(0) =>
                      out.result.volatility_regime = "Normal"

\* sessions that all end alike: no volatility now or before, regime Normal
VolatilityZeroWitness ==
    /\ out.op = "volatility_clustering"
    /\ Len(sessions) >= 10
    /\ out.result.current_volatility_5session = Fin(0)
    /\ out.result.historical_volatility_5session = Fin(0)
    /\ out.result.volatility_regime = "Normal"

\* current/historical of the 5-session standard deviations, 1 when
\* historical is 0
VolatilityRatio(pl) ==
    LET current    == WindowStd5(pl, Len(pl))
        historical == SeriesMean(Tab(5, Len(pl) - 5, LAMBDA i : WindowStd5(pl, i)))
    IN  IF historical = Fin(0) THEN FInt(1) ELSE FDiv(current, historical)

\* C24: the volatility factor of alpha_decay_score is
\* clamp(0, 10, (volatility_ratio - 1) * 10) when the volatility regime is
\* High Volatility and 0 otherwise, with volatility_ratio =
\* current/historical, 1.0 when historical is 0; it is never negative and
\* never above 10.
VolatilityFactor ==
    /\ out.op = "volatility_clustering" /\ ~HasError(out.result) =>
           out.result.volatility_ratio = VolatilityRatio(ProfitLoss)
    /\ Scored =>
           LET excess == FMul(FSub(VolatilityRatio(ProfitLoss), FInt(1)), FInt(10))
               factor == IF volatility_clustering(df).volatility_regime = "High Volatility"
                         THEN PyMax(Fin(0), PyMin(FInt(10), excess))
                         ELSE Fin(0)
           IN  /\ out.result.alpha_decay_score =
                      FAdd(FAdd(FAdd(PerformanceComponent(rolling_performance_analysis(df)),
                                     TrendComponent(trend_analysis(df))),
                                RegimeComponent(regime_change_detection(df))),
                           factor)
               /\ FGe(factor, Fin(0))
               /\ FLe(factor, FInt(10))

\* volatility after sessions without any: the regime is High Volatility,
\* the ratio 1 and the factor 0
VolatilityFactorWitness ==
    /\ Scored
    /\ volatility_clustering(df).volatility_regime = "High Volatility"
    /\ volatility_clustering(df).historical_volatility_5session = Fin(0)
    /\ VolatilityRatio(ProfitLoss) = FInt(1)

\* C26: when regime_change_detection records a crossover and the final
\* 5- and 15-session averages differ, current_regime is Good Performance
\* exactly when the most recent crossover is bullish and Poor Performance
\* exactly when it is bearish.
RegimeFollowsLastCrossover ==
    /\ out.op = "regime_change_detection"
    /\ ~HasError(out.result)
    /\ Len(sessions) >= 20
    /\ out.result.total_regime_changes >= 1
    /\ out.result.short_ma_current # out.result.long_ma_current
    => LET last == ILocLast(out.result.recent_crossovers)
       IN  /\ out.result.current_regime = "Good Performance" <=> last[1] = "bullish"
           /\ out.result.current_regime = "Poor Performance" <=> last[1] = "bearish"

\* the averages crossed downward several sessions before the last one
\* and differ at the end
RegimeFollowsWitness ==
    /\ out.op = "regime_change_detection"
    /\ ~HasError(out.result)
    /\ out.result.total_regime_changes > 3
    /\ out.result.short_ma_current # out.result.long_ma_current
    /\ ILocLast(out.result.recent_crossovers)[1] = "bearish"
    /\ ILocLast(out.result.recent_crossovers)[2] < Len(sessions) - 2
    /\ out.result.current_regime = "Poor Performance"

-----------------------------------------------------------------------------
(* Properties of the tracker *)

\* C19: in both variants of the tracker every stored record has
\* profit_loss = cash_out - buy_in - fees for the buy-in it stores, a
\* session entered with buy-in 0 included; a step appends one record at
\* the end of the list and leaves the records before it as they were.
RecordsKept ==
    /\ [](\A i \in 1..Len(sessions) :
              sessions[i].profit_loss =
                  sessions[i].cash_out - sessions[i].buy_in - sessions[i].fees)
    /\ [][\/ sessions' = sessions
          \/ /\ Len(sessions') = Len(sessions) + 1
             /\ SubSeq(sessions', 1, Len(sessions)) = sessions]_vars

\* a session continued from the bankroll of the session before
ContinuationStored ==
    /\ analyzer = "new_deposit.PokerTracker"
    /\ out.op = "add_session"
    /\ out.args[1] = 0
    /\ Len(sessions) >= 2
    /\ sessions[Len(sessions)].buy_in = sessions[Len(sessions) - 1].cash_out
    /\ sessions[Len(sessions)].buy_in > 0
    /\ sessions[Len(sessions)].new_deposit = 0

\* C30 as stated: get_stats of new_deposit.py reports a total_profit_loss,
\* current bankroll - total deposits - total fees, equal to the sum of
\* the stored sessions' profit_loss, which is average_session times
\* total_sessions.
StatsTotalIsSum ==
    out.op = "get_stats" =>
        /\ out.result.total_profit_loss =
               out.result.current_bankroll - out.result.total_deposits
                   - out.result.total_fees
        /\ out.result.total_profit_loss = Sum(Column(sessions, "profit_loss"))

\* a fresh deposit after a session that left money: the sessions made 10
\* and lost 10, the total reported is a loss of 50
FreshDepositAfterCashOut ==
    /\ out.op = "get_stats"
    /\ Len(sessions) = 2
    /\ sessions[1].cash_out = 50 /\ sessions[1].profit_loss = 10
    /\ sessions[2].new_deposit = 40 /\ sessions[2].profit_loss = -10
    /\ out.result.total_profit_loss = -50

-----------------------------------------------------------------------------
(* Properties of the training sessions *)

\* the positions of the rows of a user
RowsOf(user_id) ==
    {i \in 1..Len(training_sessions) : training_sessions[i].user_id = user_id}

\* C28: each user has at most one training session with is_active = 1,
\* and that session is the one most recently created for the user; no
\* step sets is_active of an ended session back to 1.
OneActiveSession ==
    /\ [](\A user_id \in UserIds : \A i \in RowsOf(user_id) :
              training_sessions[i].is_active = 1 =>
                  \A j \in RowsOf(user_id) : j <= i)
    /\ [][\A i \in 1..Len(training_sessions) :
              training_sessions[i].is_active = 0 =>
                  training_sessions'[i].is_active = 0]_vars

\* a second session of a user ended the first, beside another user's
\* active session
OneActiveWitness ==
    /\ Len(training_sessions) = 3
    /\ training_sessions[1].user_id = "u1" /\ training_sessions[1].is_active = 0
    /\ training_sessions[2].user_id = "u2" /\ training_sessions[2].is_active = 1
    /\ training_sessions[3].user_id = "u1" /\ training_sessions[3].is_active = 1
    /\ out.op = "create_session"

\* the rows of a user that are no longer active
EndedRowsOf(user_id) ==
    {i \in RowsOf(user_id) : training_sessions[i].is_active = 0}

\* the sum of a column over a set of rows
RECURSIVE ColumnSum(_, _)
ColumnSum(rows, name) ==
    IF rows = {} THEN 0
    ELSE LET i == CHOOSE j \in rows : TRUE
         IN  training_sessions[i][name] + ColumnSum(rows \ {i}, name)

\* C29 as stated: every training session that is no longer active has
\* been counted into its owner's totals exactly once: total_sessions is
\* the number of the user's inactive sessions, total_hands and
\* total_correct are the sums of total_hands and correct_answers over them.
EndedSessionsCounted ==
    \A user_id \in UserIds :
        /\ users[user_id].total_sessions = Cardinality(EndedRowsOf(user_id))
        /\ users[user_id].total_hands = ColumnSum(EndedRowsOf(user_id), "total_hands")
        /\ users[user_id].total_correct = ColumnSum(EndedRowsOf(user_id), "correct_answers")

\* a session with a hand played was ended by the user's next
\* create_session and is in none of the user's totals
ImplicitEndMissed ==
    /\ out.op = "create_session"
    /\ Len(training_sessions) = 2
    /\ training_sessions[1].user_id = training_sessions[2].user_id
    /\ training_sessions[1].is_active = 0
    /\ training_sessions[1].total_hands = 1
    /\ users[training_sessions[1].user_id].total_sessions = 0
    /\ users[training_sessions[1].user_id].total_hands = 0

====
